---- MODULE Spec2Model ----
(***************************************************************************)
(* Skill resolution, gap analysis and recommendation selection of the      *)
(* ResumeAnalyzer repository (Streamlit version and VercelNext.js          *)
(* version), modelled operation by operation.                              *)
(*                                                                         *)
(* Numbers: importance weights are kept in tenths (1.0 is 10), prices in   *)
(* whole currency units, similarities in hundredths.  A score is an exact  *)
(* fraction [num, den]; the conversions the code applies to it (int(),     *)
(* round(x, 1)) are modelled on the fraction.  Floating point rounding of  *)
(* the intermediate sums is not modelled.                                  *)
(***************************************************************************)
EXTENDS Integers, Sequences, FiniteSets, TLC

VARIABLES
    ga,     \* one gap-analysis call: its inputs, then its result
    rc,     \* one recommendation call: its inputs, loop state and result
    lk,     \* entity linking: the inputs and the results of two engines
    evidence_cache, \* AdvancedSkillGapAnalyzer.evidence_cache: hash -> result
    clock,  \* the wall clock read by datetime.now()
    th,     \* per caller of extract_skills_with_context: where it is
    ret,    \* the last result returned by extract_skills_with_context
    first,  \* per text, the first result returned for it
    mg,     \* merging of skill mentions: the inputs and the merged list
    ps      \* parse_resume_text: the inputs and the result of each phase
vars == <<ga, rc, lk, evidence_cache, clock, th, ret, first, mg, ps>>

\* the variables an action of one component leaves alone
ecVars == <<evidence_cache, clock, th, ret, first>>
NotGa == <<rc, lk, ecVars, mg, ps>>
NotRc == <<ga, lk, ecVars, mg, ps>>
NotLk == <<ga, rc, ecVars, mg, ps>>
NotEc == <<ga, rc, lk, mg, ps>>
NotMg == <<ga, rc, lk, ecVars, ps>>
NotPs == <<ga, rc, lk, ecVars, mg>>

Idle == [op |-> "idle"]
None == [none |-> TRUE]

\* the analyzer right after construction, no call made
EcIdle ==
    /\ evidence_cache = <<>>
    /\ clock = 0
    /\ th = [c \in {1, 2} |-> [pc |-> "idle"]]
    /\ ret = None
    /\ first = <<>>

\* no merge requested
MgIdle == mg = Idle

\* no resume handed to the parser
PsIdle == ps = Idle

(***************************************************************************)
(* Bounds of the model.                                                    *)
(***************************************************************************)
MaxSkills == 2
MaxReqs == 2
MaxPref == 1
MaxGaps == 2
MaxGapSkills == 2
MaxSummaryGaps == 4
MaxFiles == 2
MaxClock == 2
MaxPatternCands == 2
MaxEntities == 3

(***************************************************************************)
(* Generic helpers.                                                        *)
(***************************************************************************)
SeqsUpTo(S, n) == UNION {[1..k -> S] : k \in 0..n}

Max2(a, b) == IF a >= b THEN a ELSE b
Min2(a, b) == IF a <= b THEN a ELSE b

RECURSIVE SumSeq(_)
SumSeq(s) == IF s = <<>> THEN 0 ELSE s[1] + SumSeq(Tail(s))

\* dict.get(key, default)
DictGet(d, k, default) == IF k \in DOMAIN d THEN d[k] ELSE default

\* str.lower() on the strings of the model
Lower(s) ==
    CASE s = "SQL" -> "sql"
      [] s = "Sql" -> "sql"
      [] s = "React" -> "react"
      [] s = "Python" -> "python"
      [] s = "PYTHON" -> "python"
      [] s = "Git" -> "git"
      [] s = "Docker" -> "docker"
      [] s = "Python3" -> "python3"
      [] s = "Py" -> "py"
      [] s = "Databases" -> "databases"
      [] s = "Swift" -> "swift"
      [] s = "Rust Lang" -> "rust lang"
      [] s = "RUST LANG" -> "rust lang"
      [] s = "JavaScript" -> "javascript"
      [] s = "Problem Solving" -> "problem solving"
      [] s = "AWS" -> "aws"
      [] s = "Node.js" -> "node.js"
      [] OTHER -> s

\* {key(x): x for x in seq} followed by a lookup: the last entry with the
\* key wins; 0 when the key is absent.
DictIndex(keys, k) ==
    LET hits == {i \in DOMAIN keys : keys[i] = k}
    IN  IF hits = {} THEN 0 ELSE CHOOSE i \in hits : \A j \in hits : j <= i

\* exact fraction helpers
Frac(n, d) == [num |-> n, den |-> d]
FracEq(f, n) == f.num = n * f.den
FracLe(f, n) == f.num <= n * f.den
FracGe(f, n) == f.num >= n * f.den
FracLt(f, n) == f.num < n * f.den
\* int(x) for x >= 0
FracInt(f) == f.num \div f.den

\* least common multiple of the level ordinals 1..5
LevelLcm == 60

(***************************************************************************)
(* app.py: AdvancedSkillGapAnalyzer.comprehensive_gap_analysis             *)
(***************************************************************************)
app_level_hierarchy ==
    [Beginner |-> 1, Intermediate |-> 2, Advanced |-> 3, Expert |-> 4]

\* round(100 * n / d, 1) in tenths, ties to even
RoundTenths(n, d) ==
    LET q == (1000 * n) \div d
        r == (1000 * n) % d
    IN  IF 2 * r > d THEN q + 1
        ELSE IF 2 * r < d THEN q
        ELSE IF q % 2 = 0 THEN q ELSE q + 1

\* AppStep without the final else branch: a met requirement is recorded
\* nowhere
AppStep_NoStrengthBranch(acc, resume_skills, required_skills, i) ==
    LET req_skill == required_skills[i]
        keys == [j \in DOMAIN resume_skills |-> Lower(resume_skills[j].skill)]
        at == DictIndex(keys, Lower(req_skill.skill))
    IN  IF at = 0
        THEN [acc EXCEPT !.missing_critical = Append(@,
                [idx |-> i, skill |-> req_skill.skill,
                 required_level |-> req_skill.level,
                 current_level |-> "Not Found",
                 priority |-> req_skill.priority])]
        ELSE IF DictGet(app_level_hierarchy, resume_skills[at].proficiency_level, 1)
                    < DictGet(app_level_hierarchy, req_skill.level, 1)
        THEN [acc EXCEPT !.level_gaps = Append(@,
                [idx |-> i, skill |-> req_skill.skill,
                 required_level |-> req_skill.level,
                 current_level |-> resume_skills[at].proficiency_level,
                 priority |-> req_skill.priority])]
        ELSE acc

\* the loop body of comprehensive_gap_analysis for requirement i
AppStep(acc, resume_skills, required_skills, i) ==
    LET req_skill == required_skills[i]
        skill_name == Lower(req_skill.skill)
        keys == [j \in DOMAIN resume_skills |-> Lower(resume_skills[j].skill)]
        at == DictIndex(keys, skill_name)
    IN  IF at = 0
        THEN [acc EXCEPT !.missing_critical = Append(@,
                [idx |-> i, skill |-> req_skill.skill,
                 required_level |-> req_skill.level,
                 current_level |-> "Not Found",
                 priority |-> req_skill.priority])]
        ELSE LET current_skill == resume_skills[at]
                 current_level_score ==
                     DictGet(app_level_hierarchy, current_skill.proficiency_level, 1)
                 required_level_score ==
                     DictGet(app_level_hierarchy, req_skill.level, 1)
             IN  IF current_level_score < required_level_score
                 THEN [acc EXCEPT !.level_gaps = Append(@,
                         [idx |-> i, skill |-> req_skill.skill,
                          required_level |-> req_skill.level,
                          current_level |-> current_skill.proficiency_level,
                          priority |-> req_skill.priority])]
                 ELSE [acc EXCEPT !.strengths = Append(@,
                         [idx |-> i, skill |-> req_skill.skill,
                          your_level |-> current_skill.proficiency_level,
                          required_level |-> req_skill.level])]

RECURSIVE AppLoop(_, _, _, _)
AppLoop(acc, resume_skills, required_skills, i) ==
    IF i > Len(required_skills) THEN acc
    ELSE AppLoop(AppStep(acc, resume_skills, required_skills, i),
                 resume_skills, required_skills, i + 1)

\* AppMatchScore counting only the missing skills as gaps
AppMatchScore_IgnoresLevelGaps(total_required, critical_gaps, level_gaps) ==
    Frac(RoundTenths(total_required - critical_gaps, Max2(1, total_required)), 10)

AppMatchScore(total_required, critical_gaps, level_gaps) ==
    Frac(RoundTenths(total_required - critical_gaps - level_gaps,
                     Max2(1, total_required)), 10)

comprehensive_gap_analysis(resume_skills, required_skills) ==
    LET gaps == AppLoop([missing_critical |-> <<>>, level_gaps |-> <<>>,
                         strengths |-> <<>>],
                        resume_skills, required_skills, 1)
        total_required == Len(required_skills)
        critical_gaps == Len(gaps.missing_critical)
        level_gaps == Len(gaps.level_gaps)
    IN  [missing |-> gaps.missing_critical,
         level |-> gaps.level_gaps,
         strengths |-> gaps.strengths,
         score |-> AppMatchScore(total_required, critical_gaps, level_gaps)]

(***************************************************************************)
(* gap_analyzer.py: SkillGapAnalyzer and SkillMatcher                      *)
(***************************************************************************)
\* the four-step scale of the other two analyzers
gap_level_hierarchy_FourSteps ==
    [Beginner |-> 1, Intermediate |-> 2, Advanced |-> 3, Expert |-> 4]

gap_level_hierarchy ==
    [Beginner |-> 1, Familiar |-> 2, Intermediate |-> 3, Advanced |-> 4,
     Expert |-> 5]

NoGap == [gapType |-> "none"]

\* one requirement: a gap record, or NoGap for the `return None` branch
analyze_skill_gap(required_skill, extracted_skills, skill_type, i) ==
    LET skill_name == required_skill.skill
        required_level == required_skill.level
        priority == required_skill.priority
        keys == [j \in DOMAIN extracted_skills |-> Lower(extracted_skills[j].name)]
        at == DictIndex(keys, Lower(skill_name))
    IN  IF at = 0
        THEN [idx |-> i, skillName |-> skill_name, targetLevel |-> required_level,
              currentLevel |-> "None", priority |-> priority,
              gapType |-> "missing", skillType |-> skill_type,
              level_gap |-> DictGet(gap_level_hierarchy, required_level, 3)]
        ELSE LET current_level == extracted_skills[at].level
                 current_level_num == DictGet(gap_level_hierarchy, current_level, 1)
                 required_level_num == DictGet(gap_level_hierarchy, required_level, 3)
             IN  IF current_level_num < required_level_num
                 THEN [idx |-> i, skillName |-> skill_name,
                       targetLevel |-> required_level,
                       currentLevel |-> current_level, priority |-> priority,
                       gapType |-> "level", skillType |-> skill_type,
                       level_gap |-> required_level_num - current_level_num]
                 ELSE NoGap

\* list.sort(key=...) with integer keys: stable insertion sort.  keys[i] is
\* the key of s[i]; the result lists the indices of s in sorted order.
RECURSIVE InsertSorted(_, _, _)
InsertSorted(perm, x, keys) ==
    IF perm = <<>> THEN <<x>>
    ELSE IF keys[x] < keys[perm[1]] THEN <<x>> \o perm
    ELSE <<perm[1]>> \o InsertSorted(Tail(perm), x, keys)

RECURSIVE SortPerm(_, _)
SortPerm(keys, n) ==
    IF n = 0 THEN <<>> ELSE InsertSorted(SortPerm(keys, n - 1), n, keys)

StableSort(s, keys) ==
    LET perm == SortPerm(keys, Len(s)) IN [i \in 1..Len(s) |-> s[perm[i]]]

\* GapSortKey looking at the priority only
GapSortKey_PriorityOnly(gap) == 100 * gap.priority

\* key=lambda x: (x['priority'], -x.get('level_gap', 0)); level_gap is at
\* most 5, so the pair is ordered as the integer 100 * priority - level_gap
GapSortKey(gap) == 100 * gap.priority - gap.level_gap

RECURSIVE GapsOf(_, _, _, _, _)
GapsOf(reqs, extracted_skills, skill_type, offset, i) ==
    IF i > Len(reqs) THEN <<>>
    ELSE LET gap == analyze_skill_gap(reqs[i], extracted_skills, skill_type,
                                      offset + i)
         IN  (IF gap = NoGap THEN <<>> ELSE <<gap>>)
             \o GapsOf(reqs, extracted_skills, skill_type, offset, i + 1)

\* requirement indices: required skills are 1..n, preferred skills n+1..n+m
analyze_gaps(extracted_skills, role) ==
    LET gaps == GapsOf(role.required_skills, extracted_skills, "required", 0, 1)
                \o GapsOf(role.preferred_skills, extracted_skills, "preferred",
                          Len(role.required_skills), 1)
    IN  StableSort(gaps, [k \in DOMAIN gaps |-> GapSortKey(gaps[k])])

RECURSIVE SumWeights(_)
SumWeights(gaps) ==
    IF gaps = <<>> THEN 0 ELSE (6 - gaps[1].priority) + SumWeights(Tail(gaps))

\* the <<total_weight, max_possible_weight>> of up to eight gaps for which
\* the float 100 - (total / max) * 100 lies just under its integer value,
\* so that int() gives one less
TruncatedReadiness == {<<11, 20>>, <<14, 25>>, <<22, 40>>}

\* get_gap_summary with the gap impact itself as the score
get_gap_summary_ImpactAsScore(gaps) ==
    IF gaps = <<>>
    THEN [total_gaps |-> 0, critical_gaps |-> 0, readiness_score |-> 100]
    ELSE [total_gaps |-> Len(gaps),
          critical_gaps |->
              Cardinality({k \in DOMAIN gaps : gaps[k].priority <= 2}),
          readiness_score |-> (100 * SumWeights(gaps)) \div (Len(gaps) * 5)]

\* readiness_score of get_gap_summary: int(max(0, 100 - total/max * 100))
get_gap_summary(gaps) ==
    IF gaps = <<>>
    THEN [total_gaps |-> 0, critical_gaps |-> 0, readiness_score |-> 100]
    ELSE LET total_weight == SumWeights(gaps)
             max_possible_weight == Len(gaps) * 5
             \* 100 - gap_impact as a fraction over max_possible_weight
             num == 100 * max_possible_weight - 100 * total_weight
         IN  [total_gaps |-> Len(gaps),
              critical_gaps |->
                  Cardinality({k \in DOMAIN gaps : gaps[k].priority <= 2}),
              readiness_score |->
                  IF num <= 0 THEN 0
                  ELSE IF <<total_weight, max_possible_weight>> \in TruncatedReadiness
                  THEN num \div max_possible_weight - 1
                  ELSE num \div max_possible_weight]

\* GroupSkillScore with the partial credit ratio inverted
GroupSkillScore_InvertedRatio(req_skill, extracted_skills) ==
    LET keys == [j \in DOMAIN extracted_skills |-> Lower(extracted_skills[j].name)]
        at == DictIndex(keys, Lower(req_skill.skill))
    IN  IF at # 0
        THEN LET current_level_num ==
                     DictGet(gap_level_hierarchy, extracted_skills[at].level, 1)
                 required_level_num ==
                     DictGet(gap_level_hierarchy, req_skill.level, 3)
             IN  IF current_level_num >= required_level_num
                 THEN 100 * LevelLcm
                 ELSE 100 * ((LevelLcm \div current_level_num) * required_level_num)
        ELSE 0

\* the per-requirement term of _calculate_skill_group_score, times LevelLcm
GroupSkillScore(req_skill, extracted_skills) ==
    LET keys == [j \in DOMAIN extracted_skills |-> Lower(extracted_skills[j].name)]
        at == DictIndex(keys, Lower(req_skill.skill))
    IN  IF at # 0
        THEN LET current_level_num ==
                     DictGet(gap_level_hierarchy, extracted_skills[at].level, 1)
                 required_level_num ==
                     DictGet(gap_level_hierarchy, req_skill.level, 3)
             IN  IF current_level_num >= required_level_num
                 THEN 100 * LevelLcm
                 ELSE 100 * ((LevelLcm \div required_level_num) * current_level_num)
        ELSE 0

RECURSIVE GroupTotals(_, _)
GroupTotals(skill_requirements, extracted_skills) ==
    IF skill_requirements = <<>> THEN [total_score |-> 0, total_weight |-> 0]
    ELSE LET req_skill == skill_requirements[1]
             weight == 6 - req_skill.priority
             rest == GroupTotals(Tail(skill_requirements), extracted_skills)
         IN  [total_score |-> GroupSkillScore(req_skill, extracted_skills) * weight
                              + rest.total_score,
              total_weight |-> weight + rest.total_weight]

calculate_skill_group_score(skill_requirements, extracted_skills) ==
    IF skill_requirements = <<>> THEN Frac(100, 1)
    ELSE LET t == GroupTotals(skill_requirements, extracted_skills)
         IN  IF t.total_weight > 0
             THEN Frac(t.total_score, LevelLcm * t.total_weight)
             ELSE Frac(0, 1)

get_match_level(score) ==
    IF FracGe(score, 90) THEN "Excellent Match"
    ELSE IF FracGe(score, 75) THEN "Good Match"
    ELSE IF FracGe(score, 60) THEN "Moderate Match"
    ELSE IF FracGe(score, 40) THEN "Partial Match"
    ELSE "Poor Match"

calculate_match_score(extracted_skills, role) ==
    LET gaps == analyze_gaps(extracted_skills, role)
        gap_summary == get_gap_summary(gaps)
        required_score ==
            calculate_skill_group_score(role.required_skills, extracted_skills)
        preferred_score ==
            calculate_skill_group_score(role.preferred_skills, extracted_skills)
        \* (required_score * 0.6) + (preferred_score * 0.4)
        overall_score ==
            Frac(6 * required_score.num * preferred_score.den
                 + 4 * preferred_score.num * required_score.den,
                 10 * required_score.den * preferred_score.den)
    IN  [overall_score |-> FracInt(overall_score),
         required_skills_score |-> FracInt(required_score),
         preferred_skills_score |-> FracInt(preferred_score),
         required_score |-> required_score,
         preferred_score |-> preferred_score,
         readiness_score |-> gap_summary.readiness_score,
         total_gaps |-> gap_summary.total_gaps,
         critical_gaps |-> gap_summary.critical_gaps,
         match_level |-> get_match_level(overall_score),
         gaps |-> gaps]

\* JobRoleManager.load_job_roles: the default role used by the model
job_roles ==
    [software_engineer |->
        [title |-> "Software Engineer",
         required_skills |->
             << [skill |-> "Python", level |-> "Intermediate", priority |-> 1],
                [skill |-> "JavaScript", level |-> "Intermediate", priority |-> 1],
                [skill |-> "Git", level |-> "Intermediate", priority |-> 1],
                [skill |-> "SQL", level |-> "Beginner", priority |-> 2],
                [skill |-> "React", level |-> "Beginner", priority |-> 2],
                [skill |-> "Problem Solving", level |-> "Advanced", priority |-> 1] >>,
         preferred_skills |->
             << [skill |-> "Docker", level |-> "Beginner", priority |-> 3],
                [skill |-> "AWS", level |-> "Beginner", priority |-> 3],
                [skill |-> "Node.js", level |-> "Beginner", priority |-> 3] >>]]

\* JobRoleManager.get_role_requirements: dict.get
get_role_requirements(role_id) == DictGet(job_roles, role_id, None)

\* SkillGapAnalyzer.analyze_gaps from the role id
analyze_gaps_of_role(extracted_skills, target_role_id) ==
    LET role_requirements == get_role_requirements(target_role_id)
    IN  IF role_requirements = None THEN <<>>
        ELSE analyze_gaps(extracted_skills, role_requirements)

\* analyze_gaps_phase2: the gaps in the format of the API
FormattedGaps(gaps) ==
    [k \in DOMAIN gaps |->
        [skillName |-> gaps[k].skillName,
         targetLevel |-> gaps[k].targetLevel,
         currentLevel |-> gaps[k].currentLevel,
         priority |-> gaps[k].priority]]

analyze_gaps_phase2(extracted_skills, target_role_id) ==
    FormattedGaps(analyze_gaps_of_role(extracted_skills, target_role_id))

RoleNotFound == [error |-> "Role not found"]

\* SkillMatcher.calculate_match_score from the role id
calculate_match_score_of_role(extracted_skills, target_role_id) ==
    LET role_requirements == get_role_requirements(target_role_id)
    IN  IF role_requirements = None THEN RoleNotFound
        ELSE calculate_match_score(extracted_skills, role_requirements)

(***************************************************************************)
(* recommender_engine.py: RecommenderEngine.get_recommendations            *)
(***************************************************************************)
proficiency_map ==
    [Beginner |-> 1, Intermediate |-> 2, Advanced |-> 3, Expert |-> 4]

default_required_proficiency_level == "Advanced"

\* a REQUIRES edge without importance (r.importance is null)
NullImportance == -1

\* record['importance'] or 0.5, in tenths
ImportanceOrDefault(importance) ==
    IF importance = NullImportance \/ importance = 0 THEN 5 ELSE importance

\* ORDER BY r.importance DESC (null sorts first in descending order)
RequiresSortKey(edge) ==
    IF edge.importance = NullImportance THEN -1000 ELSE 0 - edge.importance

RequiredSkillsOf(kg_requires) ==
    LET sorted == StableSort(kg_requires,
                     [k \in DOMAIN kg_requires |-> RequiresSortKey(kg_requires[k])])
    IN  [k \in DOMAIN sorted |->
            [idx |-> k, uri |-> sorted[k].uri,
             importance |-> ImportanceOrDefault(sorted[k].importance),
             required_proficiency |-> default_required_proficiency_level]]

\* the loop body of get_recommendations for required skill i;
\* total_matched_importance is kept multiplied by LevelLcm
RecStep(acc, user_skills, required_skills, i) ==
    LET required_skill == required_skills[i]
        keys == [j \in DOMAIN user_skills |-> user_skills[j].kg_skill_uri]
        at == DictIndex(keys, required_skill.uri)
    IN  IF at # 0
        THEN LET user_skill == user_skills[at]
                 user_proficiency_score ==
                     DictGet(proficiency_map, user_skill.proficiency_level, 1)
                 required_proficiency_score ==
                     DictGet(proficiency_map, required_skill.required_proficiency,
                             proficiency_map[default_required_proficiency_level])
             IN  IF user_proficiency_score >= required_proficiency_score
                 THEN [acc EXCEPT
                         !.total_matched_importance =
                             @ + required_skill.importance * LevelLcm,
                         !.matched = Append(@, [idx |-> i, skill_info |-> required_skill])]
                 ELSE [acc EXCEPT
                         !.proficiency_gaps_list = Append(@,
                             [idx |-> i, skill_info |-> required_skill,
                              user_proficiency |-> user_skill.proficiency_level,
                              required_proficiency |-> required_skill.required_proficiency,
                              gap_type |-> "Proficiency Gap"]),
                         !.total_matched_importance =
                             @ + required_skill.importance
                                 * ((LevelLcm \div required_proficiency_score)
                                    * user_proficiency_score)]
        ELSE [acc EXCEPT !.missing_skills_list = Append(@,
                 [idx |-> i, skill_info |-> required_skill,
                  gap_type |-> "Missing Skill"])]

RECURSIVE RecLoop(_, _, _, _)
RecLoop(acc, user_skills, required_skills, i) ==
    IF i > Len(required_skills) THEN acc
    ELSE RecLoop(RecStep(acc, user_skills, required_skills, i),
                 user_skills, required_skills, i + 1)

RECURSIVE SumImportance(_)
SumImportance(required_skills) ==
    IF required_skills = <<>> THEN 0
    ELSE required_skills[1].importance + SumImportance(Tail(required_skills))

\* (total_matched_importance / total_required_importance) * 100
\*     if total_required_importance > 0 else 0
WeightedMatchPercentage(total_matched_lcm, total_required_importance) ==
    IF total_required_importance > 0
    THEN Frac(100 * total_matched_lcm, LevelLcm * total_required_importance)
    ELSE Frac(0, 1)

get_recommendations(user_skills, kg_requires) ==
    LET required_skills == RequiredSkillsOf(kg_requires)
        total_required_importance == SumImportance(required_skills)
        r == RecLoop([total_matched_importance |-> 0, missing_skills_list |-> <<>>,
                      proficiency_gaps_list |-> <<>>, matched |-> <<>>],
                     user_skills, required_skills, 1)
        gap_items == r.missing_skills_list \o r.proficiency_gaps_list
    IN  [required_skills |-> required_skills,
         missing |-> r.missing_skills_list,
         level |-> r.proficiency_gaps_list,
         strengths |-> r.matched,
         skill_gap_count |-> Len(r.missing_skills_list) + Len(r.proficiency_gaps_list),
         score |-> WeightedMatchPercentage(r.total_matched_importance,
                                           total_required_importance),
         recommendations |->
             [k \in DOMAIN gap_items |->
                 [skill |-> gap_items[k].skill_info.uri,
                  gap_type |-> gap_items[k].gap_type]]]

(***************************************************************************)
(* Gap analysis as a state machine: the inputs of one call are drawn in    *)
(* the initial state, each action is one of the entry points applied to    *)
(* them.                                                                   *)
(***************************************************************************)
UserLevels == {"Beginner", "Intermediate", "Advanced"}
ReqLevels == {"Intermediate", "Advanced"}
ReqPriorities == {1, 2}
PrefPriorities == {2, 3}
RawImportances == {NullImportance, 0, 10}

AppInputs ==
    [op : {"input"}, impl : {"app"},
     resume_skills :
         SeqsUpTo([skill : {"sql", "React"}, proficiency_level : UserLevels],
                  MaxSkills),
     required_skills :
         SeqsUpTo([skill : {"SQL", "React"}, level : ReqLevels,
                   priority : ReqPriorities], MaxReqs)]

GapInputs ==
    [op : {"input"}, impl : {"gap_analyzer"},
     extracted_skills :
         SeqsUpTo([name : {"SQL", "React"}, level : UserLevels], MaxSkills),
     role :
         [required_skills :
              SeqsUpTo([skill : {"SQL", "React"}, level : ReqLevels,
                        priority : ReqPriorities], MaxReqs),
          preferred_skills :
              SeqsUpTo([skill : {"SQL", "React"}, level : ReqLevels,
                        priority : PrefPriorities], MaxPref)]]

RecInputs ==
    [op : {"input"}, impl : {"recommender"},
     user_skills :
         SeqsUpTo([kg_skill_uri : {"SQL", "React"}, proficiency_level : UserLevels],
                  MaxSkills),
     kg_requires :
         SeqsUpTo([uri : {"SQL", "React"}, importance : RawImportances], MaxReqs)]

RoleIds == {"software_engineer", "astronaut"}

RoleInputs ==
    [op : {"input"}, impl : {"role_lookup"},
     extracted_skills :
         SeqsUpTo([name : {"Python", "SQL"}, level : UserLevels], MaxSkills),
     role_id : RoleIds]

\* lists of gaps for get_gap_summary, of every priority tier
GapPriorities == 1..5
SummaryInputs ==
    [op : {"input"}, impl : {"gap_summary"},
     gaps : SeqsUpTo([gapType : {"missing"}, priority : GapPriorities],
                     MaxSummaryGaps)]

InitGap ==
    /\ ga \in AppInputs \cup GapInputs \cup RecInputs \cup RoleInputs
             \cup SummaryInputs
    /\ rc = Idle
    /\ lk = Idle
    /\ EcIdle
    /\ MgIdle
    /\ PsIdle

ComprehensiveGapAnalysis ==
    /\ ga.op = "input" /\ ga.impl = "app"
    /\ ga' = [op |-> "comprehensive_gap_analysis", in |-> ga,
              n |-> Len(ga.required_skills),
              out |-> comprehensive_gap_analysis(ga.resume_skills,
                                                 ga.required_skills)]
    /\ UNCHANGED NotGa

\* the requirements for which _analyze_skill_gap returned None
NoGapIndices(extracted_skills, role) ==
    LET reqs == role.required_skills \o role.preferred_skills
    IN  {i \in DOMAIN reqs :
            analyze_skill_gap(reqs[i], extracted_skills,
                IF i <= Len(role.required_skills) THEN "required" ELSE "preferred",
                i) = NoGap}

AnalyzeGaps ==
    /\ ga.op = "input" /\ ga.impl = "gap_analyzer"
    /\ ga' = [op |-> "analyze_gaps", in |-> ga,
              n |-> Len(ga.role.required_skills) + Len(ga.role.preferred_skills),
              no_gap |-> NoGapIndices(ga.extracted_skills, ga.role),
              out |-> analyze_gaps(ga.extracted_skills, ga.role)]
    /\ UNCHANGED NotGa

CalculateMatchScore ==
    /\ ga.op = "input" /\ ga.impl = "gap_analyzer"
    /\ ga' = [op |-> "calculate_match_score", in |-> ga,
              n |-> Len(ga.role.required_skills) + Len(ga.role.preferred_skills),
              out |-> calculate_match_score(ga.extracted_skills, ga.role)]
    /\ UNCHANGED NotGa

GetRecommendations ==
    /\ ga.op = "input" /\ ga.impl = "recommender"
    /\ ga' = [op |-> "get_recommendations", in |-> ga,
              n |-> Len(ga.kg_requires),
              out |-> get_recommendations(ga.user_skills, ga.kg_requires)]
    /\ UNCHANGED NotGa

\* analyze_gaps and calculate_match_score called with a role id
AnalyzeRole ==
    /\ ga.op = "input" /\ ga.impl = "role_lookup"
    /\ ga' = [op |-> "analyze_role", in |-> ga,
              gaps |-> analyze_gaps_of_role(ga.extracted_skills, ga.role_id),
              formatted_gaps |->
                  analyze_gaps_phase2(ga.extracted_skills, ga.role_id),
              match_score |->
                  calculate_match_score_of_role(ga.extracted_skills, ga.role_id)]
    /\ UNCHANGED NotGa

GetGapSummary ==
    /\ ga.op = "input" /\ ga.impl = "gap_summary"
    /\ ga' = [op |-> "get_gap_summary", in |-> ga,
              out |-> get_gap_summary(ga.gaps)]
    /\ UNCHANGED NotGa

NextGap ==
    \/ ComprehensiveGapAnalysis
    \/ AnalyzeGaps
    \/ CalculateMatchScore
    \/ GetRecommendations
    \/ AnalyzeRole
    \/ GetGapSummary

SpecGap == InitGap /\ [][NextGap]_vars

(***************************************************************************)
(* recommendation_engine.py: CourseDatabase and RecommendationEngine.      *)
(* Prices are in cents, durations in tenths of an hour, ratings in tenths. *)
(***************************************************************************)
SampleCourses ==
    << [id |-> "udemy_python_1", provider |-> "Udemy", difficulty |-> "Beginner",
        duration_hours |-> 220, rating |-> 46, price |-> 8499, project |-> FALSE,
        skills |-> {"Python", "Programming", "Object-Oriented Programming"}],
       [id |-> "udemy_react_1", provider |-> "Udemy", difficulty |-> "Intermediate",
        duration_hours |-> 480, rating |-> 46, price |-> 8999, project |-> FALSE,
        skills |-> {"React", "JavaScript", "Redux", "Hooks"}],
       [id |-> "udemy_ml_1", provider |-> "Udemy", difficulty |-> "Intermediate",
        duration_hours |-> 440, rating |-> 45, price |-> 9499, project |-> FALSE,
        skills |-> {"Machine Learning", "Python", "R", "Data Science"}],
       [id |-> "udemy_aws_1", provider |-> "Udemy", difficulty |-> "Intermediate",
        duration_hours |-> 270, rating |-> 47, price |-> 7999, project |-> FALSE,
        skills |-> {"AWS", "Cloud Computing", "Solutions Architecture"}],
       [id |-> "coursera_python_1", provider |-> "Coursera", difficulty |-> "Beginner",
        duration_hours |-> 320, rating |-> 48, price |-> 4900, project |-> FALSE,
        skills |-> {"Python", "Programming", "Data Structures", "Web Scraping"}],
       [id |-> "coursera_ml_1", provider |-> "Coursera", difficulty |-> "Intermediate",
        duration_hours |-> 600, rating |-> 49, price |-> 7900, project |-> FALSE,
        skills |-> {"Machine Learning", "MATLAB", "Octave"}],
       [id |-> "coursera_react_1", provider |-> "Coursera", difficulty |-> "Intermediate",
        duration_hours |-> 400, rating |-> 46, price |-> 5900, project |-> FALSE,
        skills |-> {"React", "Redux", "React Native", "MongoDB"}],
       [id |-> "youtube_python_1", provider |-> "YouTube", difficulty |-> "Beginner",
        duration_hours |-> 60, rating |-> 48, price |-> 0, project |-> FALSE,
        skills |-> {"Python", "Programming"}],
       [id |-> "youtube_react_1", provider |-> "YouTube", difficulty |-> "Intermediate",
        duration_hours |-> 20, rating |-> 47, price |-> 0, project |-> FALSE,
        skills |-> {"React", "JavaScript", "JSX"}],
       [id |-> "youtube_git_1", provider |-> "YouTube", difficulty |-> "Beginner",
        duration_hours |-> 12, rating |-> 49, price |-> 0, project |-> FALSE,
        skills |-> {"Git", "GitHub", "Version Control"}] >>

\* skill_course_mapping[skill.lower()], in catalog order
CoursesTeaching(skill) ==
    SelectSeq(SampleCourses,
              LAMBDA c : \E t \in c.skills : Lower(t) = Lower(skill))

\* key=lambda x: (-x.get('rating', 0), x.get('price', inf)); prices stay
\* below 100000 cents, so the pair is ordered as one integer
CourseSortKey(c) == (0 - c.rating) * 100000 + c.price

TakeFirst(q, n) == SubSeq(q, 1, Min2(n, Len(q)))

find_courses_for_skill(skill, difficulty) ==
    LET courses == SelectSeq(CoursesTeaching(skill),
                             LAMBDA c : c.difficulty = difficulty)
        sorted == StableSort(courses,
                     [k \in DOMAIN courses |-> CourseSortKey(courses[k])])
    IN  TakeFirst(sorted, 5)

rec_level_map ==
    [None |-> 0, Beginner |-> 1, Familiar |-> 1, Intermediate |-> 2,
     Advanced |-> 3, Expert |-> 4]

get_recommended_difficulty(current_level, target_level) ==
    IF current_level = "None" THEN "Beginner"
    ELSE LET current_num == DictGet(rec_level_map, current_level, 0)
             target_num == DictGet(rec_level_map, target_level, 2)
         IN  IF target_num <= 1 THEN "Beginner"
             ELSE IF target_num <= 2
                  THEN (IF current_num > 0 THEN "Intermediate" ELSE "Beginner")
                  ELSE (IF current_num >= 2 THEN "Advanced" ELSE "Intermediate")

\* _calculate_course_score, times 2000 (rating in tenths, price in cents,
\* duration in tenths of an hour)
calculate_course_score(course, learning_style) ==
    LET rating_part == course.rating * 4000
        style_part ==
            IF learning_style = "video" /\ course.provider \in {"YouTube", "Udemy"}
            THEN 20000
            ELSE IF learning_style = "structured" /\ course.provider = "Coursera"
            THEN 20000
            ELSE IF learning_style = "hands-on" /\ course.project
            THEN 30000
            ELSE 0
        price_part ==
            IF course.price = 0 THEN 10000 ELSE Max2(0, 20000 - course.price)
        duration_part ==
            IF 100 <= course.duration_hours /\ course.duration_hours <= 300
            THEN 10000
            ELSE IF course.duration_hours < 50 THEN -4000
            ELSE IF course.duration_hours > 500 THEN -6000
            ELSE 0
    IN  rating_part + style_part + price_part + duration_part

NoCourse == [id |-> "none"]

\* _select_best_course: the affordable course of highest score, the first
\* of them on ties (sort by score descending is stable)
select_best_course(courses, learning_style, remaining_budget) ==
    LET affordable_courses ==
            SelectSeq(courses, LAMBDA c : c.price <= remaining_budget)
        sorted ==
            StableSort(affordable_courses,
                [k \in DOMAIN affordable_courses |->
                    0 - calculate_course_score(affordable_courses[k], learning_style)])
    IN  IF affordable_courses = <<>> THEN NoCourse ELSE sorted[1]

create_recommendation(course, gap, difficulty) ==
    [id |-> course.id, provider |-> course.provider, difficulty |-> difficulty,
     estimatedHours |-> course.duration_hours, rating |-> course.rating,
     price |-> course.price, priority |-> gap.priority,
     skillName |-> gap.skillName]

\* sorted(gaps, key=lambda x: (x.get('priority', 5), x.get('gapType') == 'missing'))
RecGapSortKey(gap) ==
    2 * gap.priority
    + (IF "gapType" \in DOMAIN gap /\ gap.gapType = "missing" THEN 1 ELSE 0)

SortedGaps(gaps) ==
    StableSort(gaps, [k \in DOMAIN gaps |-> RecGapSortKey(gaps[k])])

\* AddCourse without `total_cost += price`
AddCourse_NoCostUpdate(st, recommendation, best_course) ==
    [st EXCEPT !.recommendations = Append(@, recommendation),
               !.total_time = @ + best_course.duration_hours]

\* lines 278-282: the recommendation is appended and the running totals grow
AddCourse(st, recommendation, best_course) ==
    [st EXCEPT !.recommendations = Append(@, recommendation),
               !.total_time = @ + best_course.duration_hours,
               !.total_cost = @ + best_course.price]

\* one iteration of the loop of generate_recommendations over sorted_gaps[i]
GenerateStep(st) ==
    IF st.total_time >= st.time_limit
    THEN [st EXCEPT !.op = "generate_recommendations"]
    ELSE LET gap == st.sorted_gaps[st.i]
             recommended_difficulty ==
                 get_recommended_difficulty(gap.currentLevel, gap.targetLevel)
             courses == find_courses_for_skill(gap.skillName, recommended_difficulty)
             best_course ==
                 select_best_course(courses, st.learning_style,
                                    st.budget_limit - st.total_cost)
             taken == /\ courses # <<>>
                      /\ best_course # NoCourse
                      /\ st.total_cost + best_course.price <= st.budget_limit
             next == [st EXCEPT
                        !.op = IF st.i = Len(st.sorted_gaps)
                               THEN "generate_recommendations" ELSE "loop",
                        !.i = @ + 1]
         IN  IF taken
             THEN AddCourse(next,
                      create_recommendation(best_course, gap, recommended_difficulty),
                      best_course)
             ELSE next

(***************************************************************************)
(* app.py: LearningPathOptimizer                                           *)
(***************************************************************************)
learning_modules ==
    [python |-> << [module |-> "Python Basics", duration |-> 10,
                    difficulty |-> "Beginner"],
                   [module |-> "OOP in Python", duration |-> 15,
                    difficulty |-> "Intermediate"],
                   [module |-> "Advanced Python", duration |-> 20,
                    difficulty |-> "Advanced"] >>,
     machine_learning |->
                << [module |-> "ML Fundamentals", duration |-> 25,
                    difficulty |-> "Intermediate"],
                   [module |-> "Deep Learning", duration |-> 30,
                    difficulty |-> "Advanced"],
                   [module |-> "ML Projects", duration |-> 20,
                    difficulty |-> "Advanced"] >>]

\* skill.lower() as a key of learning_modules ("" when it is none of them)
ModuleKey(skill) ==
    CASE skill = "Python" -> "python"
      [] skill = "python" -> "python"
      [] skill = "Machine Learning" -> "machine_learning"
      [] OTHER -> ""

\* round(n / d) for n >= 0, d > 0: ties go to the even integer
RoundHalfEven(n, d) ==
    LET q == n \div d
        r == n % d
    IN  IF 2 * r > d THEN q + 1
        ELSE IF 2 * r < d THEN q
        ELSE IF q % 2 = 0 THEN q ELSE q + 1

RECURSIVE PathOf(_, _)
PathOf(gap_skills, weekly_hours) ==
    IF gap_skills = <<>> THEN <<>>
    ELSE LET skill == gap_skills[1]
             modules == IF ModuleKey(skill) \in DOMAIN learning_modules
                        THEN learning_modules[ModuleKey(skill)] ELSE <<>>
         IN  [k \in DOMAIN modules |->
                 [skill |-> skill, module |-> modules[k].module,
                  duration_hours |-> modules[k].duration,
                  duration_weeks |-> Frac(modules[k].duration, weekly_hours),
                  difficulty |-> modules[k].difficulty]]
             \o PathOf(Tail(gap_skills), weekly_hours)

RECURSIVE apply_spaced_repetition(_, _, _)
apply_spaced_repetition(path, weekly_hours, current_week) ==
    IF path = <<>> THEN <<>>
    ELSE LET item == path[1]
             weeks_needed == Max2(1, RoundHalfEven(item.duration_hours, weekly_hours))
         IN  << [skill |-> item.skill, module |-> item.module,
                 duration_hours |-> item.duration_hours,
                 duration_weeks |-> item.duration_weeks,
                 difficulty |-> item.difficulty,
                 start_week |-> current_week,
                 end_week |-> current_week + weeks_needed - 1,
                 review_weeks |-> <<current_week + weeks_needed + 2,
                                    current_week + weeks_needed + 4>>] >>
             \o apply_spaced_repetition(Tail(path), weekly_hours,
                                        current_week + weeks_needed)

generate_fallback_path(gap_skills, weekly_hours) ==
    [fallback |-> TRUE,
     optimized_path |->
         [i \in DOMAIN gap_skills |->
             [skill |-> gap_skills[i], module |-> <<"Learn", gap_skills[i]>>,
              duration_hours |-> 20, duration_weeks |-> Frac(2, 1),
              difficulty |-> "Intermediate",
              start_week |-> (i - 1) * 2 + 1, end_week |-> (i - 1) * 2 + 2]],
     total_duration_hours |-> Len(gap_skills) * 20,
     estimated_completion_weeks |-> Frac(Len(gap_skills) * 2, 1),
     weekly_commitment |-> weekly_hours]

RECURSIVE SumDuration(_)
SumDuration(path) ==
    IF path = <<>> THEN 0 ELSE path[1].duration_hours + SumDuration(Tail(path))

\* every division by weekly_hours raises ZeroDivisionError when it is 0 (line
\* 489 divides even when the path is empty); the except branch then returns
\* the fallback path
optimize_learning_path(gap_skills, weekly_hours) ==
    IF weekly_hours = 0
    THEN generate_fallback_path(gap_skills, weekly_hours)
    ELSE LET path == PathOf(gap_skills, weekly_hours)
             total_duration == SumDuration(path)
         IN  [fallback |-> FALSE,
              optimized_path |-> apply_spaced_repetition(path, weekly_hours, 1),
              total_duration_hours |-> total_duration,
              estimated_completion_weeks |-> Frac(total_duration, weekly_hours),
              weekly_commitment |-> weekly_hours]

(***************************************************************************)
(* Recommendation as a state machine: generate_recommendations runs one    *)
(* loop iteration per step; optimize_learning_path is one step.            *)
(***************************************************************************)
GapChoices ==
    { [skillName |-> "Python", currentLevel |-> "None",
       targetLevel |-> "Intermediate", priority |-> 1, gapType |-> "missing"],
      [skillName |-> "Python", currentLevel |-> "Beginner",
       targetLevel |-> "Advanced", priority |-> 1, gapType |-> "level"],
      [skillName |-> "React", currentLevel |-> "Beginner",
       targetLevel |-> "Intermediate", priority |-> 2, gapType |-> "level"],
      [skillName |-> "React", currentLevel |-> "None",
       targetLevel |-> "Intermediate", priority |-> 2, gapType |-> "missing"],
      [skillName |-> "Docker", currentLevel |-> "None",
       targetLevel |-> "Beginner", priority |-> 3, gapType |-> "missing"] }

BudgetLimits == {0, 4900, 6000, 15000, 100000}
TimeLimits == {200, 1000}
LearningStyles == {"mixed", "video", "structured"}
WeeklyHours == {0, 10, 15}
GapSkillNames == {"Python", "Machine Learning", "Docker"}

EngineInputs ==
    [op : {"input"}, impl : {"recommendation_engine"},
     gaps : SeqsUpTo(GapChoices, MaxGaps),
     budget_limit : BudgetLimits, time_limit : TimeLimits,
     learning_style : LearningStyles]

OptimizerInputs ==
    [op : {"input"}, impl : {"learning_path_optimizer"},
     gap_skills : SeqsUpTo(GapSkillNames, MaxGapSkills),
     weekly_hours : WeeklyHours]

InitRec ==
    /\ ga = Idle
    /\ rc \in EngineInputs \cup OptimizerInputs
    /\ lk = Idle
    /\ EcIdle
    /\ MgIdle
    /\ PsIdle

\* generate_recommendations up to the first loop iteration
GenerateRecommendations ==
    /\ rc.op = "input" /\ rc.impl = "recommendation_engine"
    /\ rc' = [op |-> IF rc.gaps = <<>> THEN "generate_recommendations" ELSE "loop",
              gaps |-> rc.gaps,
              sorted_gaps |-> SortedGaps(rc.gaps),
              i |-> 1,
              budget_limit |-> rc.budget_limit,
              time_limit |-> rc.time_limit,
              learning_style |-> rc.learning_style,
              recommendations |-> <<>>,
              total_time |-> 0,
              total_cost |-> 0]
    /\ UNCHANGED NotRc

GenerateLoop ==
    /\ rc.op = "loop"
    /\ rc' = GenerateStep(rc)
    /\ UNCHANGED NotRc

OptimizeLearningPath ==
    /\ rc.op = "input" /\ rc.impl = "learning_path_optimizer"
    /\ rc' = [op |-> "optimize_learning_path",
              gap_skills |-> rc.gap_skills,
              out |-> optimize_learning_path(rc.gap_skills, rc.weekly_hours)]
    /\ UNCHANGED NotRc

NextRec ==
    \/ GenerateRecommendations
    \/ GenerateLoop
    \/ OptimizeLearningPath

SpecRec == InitRec /\ [][NextRec]_vars

(***************************************************************************)
(* recommender_engine.py: RecommenderEngine.link_entities_to_kg.           *)
(* Cosine similarities are in hundredths.  The embedder is a deterministic *)
(* black box: sim[s][k] is the similarity of the embedding of string s to  *)
(* the cached embedding of knowledge-base skill k.                         *)
(***************************************************************************)
kg_skills_cache ==
    << [uri |-> "skill_0", name |-> "Python", synonyms |-> <<"Python3", "Py">>],
       [uri |-> "skill_3", name |-> "SQL",
        synonyms |-> <<"Structured Query Language">>] >>

NoDoc == <<>>

\* lines 408-422: the lemma of the first token equal to the skill name
\* (case-insensitive), the name itself when there is none or no doc
NormalizedInputSkill(skill_name, doc) ==
    LET hits == {t \in DOMAIN doc : Lower(doc[t].text) = Lower(skill_name)}
    IN  IF hits = {} THEN skill_name
        ELSE doc[CHOOSE t \in hits : \A u \in hits : t <= u].lemma

\* ArgMax taking the last index of the largest value
ArgMax_LastMax(row) ==
    CHOOSE k \in DOMAIN row :
        /\ \A j \in DOMAIN row : row[j] <= row[k]
        /\ \A j \in DOMAIN row : row[j] = row[k] => j <= k

\* np.argmax: the first index of the largest value
ArgMax(row) ==
    CHOOSE k \in DOMAIN row :
        /\ \A j \in DOMAIN row : row[j] <= row[k]
        /\ \A j \in DOMAIN row : row[j] = row[k] => k <= j

NoLink == [kg_skill_uri |-> "none"]

\* LinkOne taking the first knowledge-base skill that reaches the threshold
\* instead of the most similar one
LinkOne_FirstAboveThreshold(skill_data, normalized, row, similarity_threshold) ==
    LET above == {k \in DOMAIN row : row[k] >= similarity_threshold}
    IN  IF above = {} THEN NoLink
        ELSE LET k == CHOOSE a \in above : \A b \in above : a <= b
             IN  [input_skill |-> skill_data.name,
                  kg_skill_uri |-> kg_skills_cache[k].uri,
                  kg_skill_name |-> kg_skills_cache[k].name,
                  similarity_score |-> row[k],
                  normalized_skill |-> normalized,
                  proficiency_level |-> skill_data.proficiency_level]

\* lines 432-452: the body of the linking loop for one input skill
LinkOne(skill_data, normalized, row, similarity_threshold) ==
    LET best_match_idx == ArgMax(row)
        best_similarity == row[best_match_idx]
    IN  IF best_similarity >= similarity_threshold
        THEN [input_skill |-> skill_data.name,
              kg_skill_uri |-> kg_skills_cache[best_match_idx].uri,
              kg_skill_name |-> kg_skills_cache[best_match_idx].name,
              similarity_score |-> best_similarity,
              normalized_skill |-> normalized,
              proficiency_level |-> skill_data.proficiency_level]
        ELSE NoLink

RECURSIVE LinkLoop(_, _, _, _)
LinkLoop(skill_data_list, doc, sim, similarity_threshold) ==
    IF skill_data_list = <<>> THEN <<>>
    ELSE LET normalized == NormalizedInputSkill(skill_data_list[1].name, doc)
             link == LinkOne(skill_data_list[1], normalized, sim[normalized],
                             similarity_threshold)
         IN  (IF link = NoLink THEN <<>> ELSE <<link>>)
             \o LinkLoop(Tail(skill_data_list), doc, sim, similarity_threshold)

\* a failing embedder raises inside the try block: the except branch
\* returns []
link_entities_to_kg(skill_data_list, doc, sim, embedder_ok, similarity_threshold) ==
    IF skill_data_list = <<>> THEN <<>>
    ELSE IF ~embedder_ok THEN <<>>
    ELSE LinkLoop(skill_data_list, doc, sim, similarity_threshold)

(***************************************************************************)
(* Entity linking as a state machine: two engines with their own           *)
(* similarity_threshold link the same skills against the same cache.       *)
(***************************************************************************)
MaxLinkSkills == 2

SimValues == {70, 90}
Thresholds == {70, 90, 95}
LinkSkillData ==
    { [name |-> "Python3", proficiency_level |-> "Expert"],
      [name |-> "Databases", proficiency_level |-> "Beginner"] }
LinkDocs == {NoDoc, <<[text |-> "databases", lemma |-> "database"]>>}
LinkStrings == {"Python3", "Databases", "database"}

LinkInputs ==
    [op : {"link"},
     skill_data_list : SeqsUpTo(LinkSkillData, MaxLinkSkills),
     doc : LinkDocs,
     sim : [LinkStrings -> [DOMAIN kg_skills_cache -> SimValues]],
     embedder_ok : BOOLEAN,
     threshold : [{1, 2} -> Thresholds],
     done : {{}},
     out : {[e \in {1, 2} |-> <<>>]}]

InitLink ==
    /\ ga = Idle
    /\ rc = Idle
    /\ lk \in LinkInputs
    /\ EcIdle
    /\ MgIdle
    /\ PsIdle

\* engine e runs link_entities_to_kg
LinkEntities(e) ==
    /\ lk.op = "link"
    /\ e \notin lk.done
    /\ lk' = [lk EXCEPT
                !.done = @ \cup {e},
                !.out[e] = link_entities_to_kg(lk.skill_data_list, lk.doc, lk.sim,
                                               lk.embedder_ok, lk.threshold[e])]
    /\ UNCHANGED NotLk

NextLink == \E e \in {1, 2} : LinkEntities(e)

SpecLink == InitLink /\ [][NextLink]_vars

(***************************************************************************)
(* app.py: AdvancedSkillGapAnalyzer.extract_skills_with_context and its    *)
(* evidence cache.  A text is the sequence of its lower-cased words; a     *)
(* word-boundary regex match and a substring test are both the occurrence  *)
(* of the word.  Confidences are in hundredths, proficiency scores in      *)
(* tenths.                                                                 *)
(***************************************************************************)
Texts ==
    { <<>>,
      <<"expert", "python", "sql">>,
      <<"python", "python", "python", "python", "js">>,
      <<"basic", "sql">> }

master_skills == <<"python", "javascript", "sql">>
skill_synonyms == [javascript |-> <<"js", "ecmascript">>]
synonym_order == <<"javascript">>

\* hashlib.md5(text.encode()).hexdigest()[:16]
TextHash(text) ==
    CASE text = <<"expert", "python", "sql">> -> "9f2c41d07ab35e68"
      [] text = <<"python", "python", "python", "python", "js">> -> "03be77a1c95d2f40"
      [] text = <<"basic", "sql">> -> "c81d5e0a66f2b917"
      [] OTHER -> "d41d8cd98f00b204"

CountWord(text, w) == Cardinality({k \in DOMAIN text : text[k] = w})

\* method 1: the master skills found in the text
RECURSIVE PatternDetected(_, _)
PatternDetected(text, k) ==
    IF k > Len(master_skills) THEN <<>>
    ELSE LET skill == master_skills[k]
             matches == CountWord(text, skill)
         IN  (IF matches > 0
              THEN <<[skill |-> skill, method |-> "pattern",
                      confidence |-> Min2(90, 60 + matches * 10),
                      frequency |-> matches]>>
              ELSE <<>>)
             \o PatternDetected(text, k + 1)

\* method 2: a main skill not yet detected whose synonym occurs
RECURSIVE SynonymDetected(_, _, _)
SynonymDetected(text, detected, k) ==
    IF k > Len(synonym_order) THEN detected
    ELSE LET main_skill == synonym_order[k]
             synonyms == skill_synonyms[main_skill]
             present == {j \in DOMAIN synonyms : CountWord(text, synonyms[j]) > 0}
             known == \E d \in DOMAIN detected : detected[d].skill = main_skill
         IN  IF present = {} \/ known
             THEN SynonymDetected(text, detected, k + 1)
             ELSE LET j == CHOOSE a \in present : \A b \in present : a <= b
                  IN  SynonymDetected(text,
                          Append(detected,
                              [skill |-> main_skill, method |-> "synonym",
                               confidence |-> 70,
                               frequency |-> CountWord(text, synonyms[j])]),
                          k + 1)

expert_keywords == {"expert", "expertise", "master", "advanced", "senior", "lead"}
intermediate_keywords == {"proficient", "experienced", "skilled", "competent"}
beginner_keywords == {"basic", "beginner", "familiar", "knowledge"}

HasKeyword(text, keywords) == \E k \in DOMAIN text : text[k] \in keywords

analyze_skill_proficiency(skill, text, skill_data) ==
    LET in_text == CountWord(text, skill) > 0
        by_keyword ==
            IF HasKeyword(text, expert_keywords) /\ in_text
            THEN [level |-> "Expert", score |-> 40]
            ELSE IF HasKeyword(text, intermediate_keywords) /\ in_text
            THEN [level |-> "Advanced", score |-> 30]
            ELSE IF HasKeyword(text, beginner_keywords) /\ in_text
            THEN [level |-> "Beginner", score |-> 10]
            ELSE [level |-> "Intermediate", score |-> 20]
    IN  IF skill_data.frequency > 3 /\ by_keyword.score < 40
        THEN LET score == Min2(40, by_keyword.score + 5)
             IN  [level |-> IF score >= 35 THEN "Expert"
                            ELSE IF score >= 25 THEN "Advanced"
                            ELSE by_keyword.level,
                  score |-> score]
        ELSE by_keyword

SkillCategory(skill) ==
    IF skill \in {"python", "javascript", "sql"}
    THEN "Programming Languages" ELSE "Other"

\* the body of extract_skills_with_context after a cache miss
AnalyzeText(text, now) ==
    LET detected == SynonymDetected(text, PatternDetected(text, 1), 1)
        skills_with_proficiency ==
            [k \in DOMAIN detected |->
                LET p == analyze_skill_proficiency(detected[k].skill, text, detected[k])
                IN  [skill |-> detected[k].skill,
                     proficiency_level |-> p.level,
                     proficiency_score |-> p.score,
                     confidence |-> detected[k].confidence,
                     extraction_method |-> detected[k].method,
                     category |-> SkillCategory(detected[k].skill)]]
        sorted == StableSort(skills_with_proficiency,
                     [k \in DOMAIN skills_with_proficiency |->
                         0 - skills_with_proficiency[k].confidence])
        top == TakeFirst(sorted, 30)
    IN  [skills |-> top,
         metadata |-> [total_skills_found |-> Len(top),
                       text_length |-> Len(text),
                       processing_time |-> now]]

InvalidTextResult ==
    [skills |-> <<>>, metadata |-> [error |-> "Invalid text input"]]

Miss == [miss |-> TRUE]

\* a lookup that never finds the entry
CacheLookup_NeverHits(cache, text_hash) == Miss

\* lines 1099-1100: `if text_hash in self.evidence_cache`
CacheLookup(cache, text_hash) ==
    IF text_hash \in DOMAIN cache THEN cache[text_hash] ELSE Miss

\* dict[key] = value
DictPut(d, k, v) == [x \in DOMAIN d \cup {k} |-> IF x = k THEN v ELSE d[x]]

\* a result is handed to the caller
Return(text, result) ==
    /\ ret' = [text |-> text, result |-> result]
    /\ first' = IF text \in DOMAIN first THEN first ELSE DictPut(first, text, result)

\* caller c enters extract_skills_with_context(text): the input check and
\* the cache lookup; on a miss it goes on to analyse the text
BeginExtract(c, text) ==
    /\ th[c].pc = "idle"
    /\ IF text = <<>>
       THEN /\ Return(text, InvalidTextResult)
            /\ UNCHANGED <<th, evidence_cache>>
       ELSE LET hit == CacheLookup(evidence_cache, TextHash(text))
            IN  IF hit # Miss
                THEN /\ Return(text, hit)
                     /\ UNCHANGED <<th, evidence_cache>>
                ELSE /\ th' = [th EXCEPT ![c] = [pc |-> "analyze", text |-> text]]
                     /\ UNCHANGED <<evidence_cache, ret, first>>
    /\ UNCHANGED <<clock, NotEc>>

\* caller c finishes: the result is built, stored in the cache and returned
FinishExtract(c) ==
    /\ th[c].pc = "analyze"
    /\ LET text == th[c].text
           result == AnalyzeText(text, clock)
       IN  /\ evidence_cache' = DictPut(evidence_cache, TextHash(text), result)
           /\ Return(text, result)
    /\ th' = [th EXCEPT ![c] = [pc |-> "idle"]]
    /\ UNCHANGED <<clock, NotEc>>

\* time passes
Tick ==
    /\ clock < MaxClock
    /\ clock' = clock + 1
    /\ UNCHANGED <<evidence_cache, th, ret, first, NotEc>>

InitCache ==
    /\ ga = Idle
    /\ rc = Idle
    /\ lk = Idle
    /\ EcIdle
    /\ MgIdle
    /\ PsIdle

\* one analyzer used by one caller at a time
NextCache ==
    \/ \E text \in Texts : BeginExtract(1, text)
    \/ FinishExtract(1)
    \/ Tick

SpecCache == InitCache /\ [][NextCache]_vars

\* the callers that share one analyzer
Callers == {1, 2}

\* one analyzer used by several callers at once: nothing locks the cache,
\* so the calls interleave between the lookup and the store
NextConcurrent ==
    \/ \E c \in Callers, text \in Texts : BeginExtract(c, text)
    \/ \E c \in Callers : FinishExtract(c)
    \/ Tick

SpecConcurrent == InitCache /\ [][NextConcurrent]_vars

(***************************************************************************)
(* skill_extractor.py: the skill index, the four extraction methods as far *)
(* as they name a mention, and _normalize_and_merge_skills.  An evidence   *)
(* item is the number of the sentence or match it quotes.                  *)
(***************************************************************************)
\* str.title() on the strings of the model
Title(s) ==
    CASE s = "rust lang" -> "Rust Lang"
      [] s = "RUST LANG" -> "Rust Lang"
      [] s = "python3" -> "Python3"
      [] s = "PYTHON" -> "Python"
      [] s = "py" -> "Py"
      [] OTHER -> s

\* len(s) on the strings of the model
StrLen(s) ==
    CASE s \in {"py", "Py"} -> 2
      [] s \in {"SQL", "sql", "AWS", "aws"} -> 3
      [] s \in {"Swift", "swift"} -> 5
      [] s \in {"Python", "python", "PYTHON"} -> 6
      [] s \in {"Python3", "python3", " Python", "##Python"} -> 7
      [] s \in {"rust lang", "RUST LANG", "Rust Lang"} -> 9
      [] OTHER -> 4

\* str.strip() on the strings of the model
Strip(s) == IF s = " Python" THEN "Python" ELSE s

\* the default taxonomy and synonyms, in iteration order
taxonomy ==
    << [skill |-> "Python", category |-> "technical_skills.programming"],
       [skill |-> "Swift", category |-> "technical_skills.programming"],
       [skill |-> "Swift", category |-> "technical_skills.mobile_development"] >>
synonyms == [Python |-> <<"Python3", "Py">>]

\* the (key, canonical, category) assignments of _build_skill_index in order
RECURSIVE IndexAssignments(_)
IndexAssignments(k) ==
    IF k > Len(taxonomy) THEN <<>>
    ELSE LET skill == taxonomy[k].skill
             info == [canonical |-> skill, category |-> taxonomy[k].category]
             syns == IF skill \in DOMAIN synonyms THEN synonyms[skill] ELSE <<>>
         IN  <<[key |-> Lower(skill), info |-> info]>>
             \o [j \in DOMAIN syns |-> [key |-> Lower(syns[j]), info |-> info]]
             \o IndexAssignments(k + 1)

\* SkillTaxonomy.all_skills: a later assignment to a key replaces the earlier
build_skill_index ==
    LET a == IndexAssignments(1)
        keys == [j \in DOMAIN a |-> a[j].key]
    IN  [key \in {keys[j] : j \in DOMAIN keys} |-> a[DictIndex(keys, key)].info]

\* the keys of all_skills in insertion order
IndexKeys == <<"python", "python3", "py", "swift">>

normalize_skill(skill) ==
    DictGet(build_skill_index, Strip(Lower(skill)), None)

\* lines 469-491; no string of the model holds a digit, a stop word or a
\* time word
is_valid_skill_candidate(candidate) ==
    /\ StrLen(Strip(candidate)) >= 2
    /\ StrLen(candidate) <= 50
    /\ ~(StrLen(Lower(candidate)) <= 2)

\* _extract_taxonomy_skills: one mention per index key found with evidence
RECURSIVE extract_taxonomy_skills(_, _)
extract_taxonomy_skills(found, k) ==
    IF k > Len(IndexKeys) THEN <<>>
    ELSE LET skill_key == IndexKeys[k]
             skill_info == build_skill_index[skill_key]
         IN  (IF skill_key \in DOMAIN found /\ found[skill_key] # <<>>
              THEN <<[name |-> skill_info.canonical,
                      category |-> skill_info.category,
                      evidence |-> found[skill_key],
                      extraction_method |-> "taxonomy",
                      extraction_methods |-> {},
                      matched_term |-> skill_key]>>
              ELSE <<>>)
             \o extract_taxonomy_skills(found, k + 1)

\* _extract_pattern_skills for the candidates the patterns captured
RECURSIVE extract_pattern_skills(_, _)
extract_pattern_skills(candidates, k) ==
    IF k > Len(candidates) THEN <<>>
    ELSE LET candidate == Strip(candidates[k])
             normalized == normalize_skill(candidate)
         IN  (IF ~is_valid_skill_candidate(candidate) THEN <<>>
              ELSE IF normalized # None
              THEN <<[name |-> normalized.canonical,
                      category |-> normalized.category,
                      evidence |-> <<10 + k>>,
                      extraction_method |-> "pattern",
                      extraction_methods |-> {},
                      matched_term |-> candidate]>>
              ELSE <<[name |-> Title(candidate),
                      category |-> "unknown.pattern",
                      evidence |-> <<10 + k>>,
                      extraction_method |-> "pattern",
                      extraction_methods |-> {},
                      matched_term |-> candidate]>>)
             \o extract_pattern_skills(candidates, k + 1)

\* _extract_ner_skills and _extract_section_skills: only candidates the
\* index knows become mentions
RECURSIVE extract_known_skills(_, _, _, _)
extract_known_skills(candidates, method, base, k) ==
    IF k > Len(candidates) THEN <<>>
    ELSE LET candidate == Strip(candidates[k])
             normalized == normalize_skill(candidate)
             valid == IF method = "section"
                      THEN is_valid_skill_candidate(candidate) ELSE TRUE
         IN  (IF valid /\ normalized # None
              THEN <<[name |-> normalized.canonical,
                      category |-> normalized.category,
                      evidence |-> <<base + k>>,
                      extraction_method |-> method,
                      extraction_methods |-> {},
                      matched_term |-> candidate]>>
              ELSE <<>>)
             \o extract_known_skills(candidates, method, base, k + 1)

\* the position of the entry called name, 0 when there is none
MergeIndex(skill_map, name) ==
    LET hits == {j \in DOMAIN skill_map : skill_map[j].name = name}
    IN  IF hits = {} THEN 0 ELSE CHOOSE j \in hits : TRUE

\* lines 513-528: one mention enters the map
MergeStep(skill_map, skill) ==
    LET at == MergeIndex(skill_map, skill.name)
    IN  IF at = 0 THEN Append(skill_map, skill)
        ELSE LET existing == skill_map[at]
                 methods == IF existing.extraction_methods = {}
                            THEN {existing.extraction_method}
                            ELSE existing.extraction_methods
             IN  [skill_map EXCEPT ![at] =
                    [existing EXCEPT
                        !.evidence = TakeFirst(existing.evidence \o skill.evidence, 5),
                        !.extraction_methods = methods \cup {skill.extraction_method}]]

RECURSIVE MergeLoop(_, _, _)
MergeLoop(skills, k, skill_map) ==
    IF k > Len(skills) THEN skill_map
    ELSE MergeLoop(skills, k + 1, MergeStep(skill_map, skills[k]))

normalize_and_merge_skills(skills) == MergeLoop(skills, 1, <<>>)

(***************************************************************************)
(* recommender_engine.py: extract_skills_from_resume.  Scores and          *)
(* confidences are in hundredths and percent.                              *)
(***************************************************************************)
NullScore == -1

\* lines 337-339: strip and removal of the subword markers
CleanWord(word) ==
    LET stripped == Strip(word)
    IN  IF stripped = "##Python" THEN "Python" ELSE stripped

\* `a in b` on the lower-cased strings of the model
IsSubstring(a, b) ==
    \/ a = b
    \/ a = "python" /\ b = "python3"
    \/ a = "py" /\ b \in {"python", "python3"}

rec_expert_keywords == {"expert in", "senior"}
rec_advanced_keywords == {"proficient in", "lead"}
rec_intermediate_keywords == {"experience with", "used"}
rec_beginner_keywords == {"exposure to", "learning"}
NoYears == -1

\* line 279: the pattern (\d+)\+?\s*(year|yr)s?\s*of\s*experience matches a
\* cue only when nothing but blanks stands between "of" and "experience"
years_of_experience_match(context) ==
    context.years # NoYears /\ context.between = 0

\* _detect_proficiency_level on a context given by the years its cue states
\* (NoYears when it has none), the number of words the cue puts between
\* "of" and "experience", and the key phrases the context holds
detect_proficiency_level(context) ==
    IF years_of_experience_match(context) /\ context.years >= 5 THEN "Expert"
    ELSE IF years_of_experience_match(context) /\ context.years >= 3 THEN "Advanced"
    ELSE IF years_of_experience_match(context) /\ context.years >= 1 THEN "Intermediate"
    ELSE IF context.phrases \cap rec_expert_keywords # {} THEN "Expert"
    ELSE IF context.phrases \cap rec_advanced_keywords # {} THEN "Advanced"
    ELSE IF context.phrases \cap rec_intermediate_keywords # {} THEN "Intermediate"
    ELSE IF context.phrases \cap rec_beginner_keywords # {} THEN "Beginner"
    ELSE "Intermediate"

\* lines 343-353: a token holding the skill text that is no noun, proper
\* noun or adjective rejects the skill
IsValidSkillInDoc(skill_text, doc) ==
    ~\E t \in DOMAIN doc :
        /\ IsSubstring(Lower(skill_text), Lower(doc[t].text))
        /\ doc[t].pos \notin {"NOUN", "PROPN", "ADJ"}

\* lines 332-374: the skill data of the entities
RECURSIVE ExtractedSkillData(_, _, _)
ExtractedSkillData(entities, doc, k) ==
    IF k > Len(entities) THEN <<>>
    ELSE LET entity == entities[k]
             skill_text == CleanWord(entity.word)
         IN  (IF /\ entity.entity_group \in {"SKILL", "B-SKILL", "I-SKILL"}
                 /\ StrLen(skill_text) > 2
                 /\ IsValidSkillInDoc(skill_text, doc)
              THEN <<[name |-> skill_text,
                      confidence |-> IF entity.score = NullScore THEN 50
                                     ELSE entity.score,
                      proficiency_level |-> detect_proficiency_level(entity.context)]>>
              ELSE <<>>)
             \o ExtractedSkillData(entities, doc, k + 1)

\* the position of the entry stored under the key, 0 when there is none
UniqueIndex(unique, key) ==
    LET hits == {j \in DOMAIN unique : Lower(unique[j].name) = key}
    IN  IF hits = {} THEN 0 ELSE CHOOSE j \in hits : TRUE

\* lines 377-381: one skill enters unique_skills_map
UniqueStep(unique, skill_data) ==
    LET at == UniqueIndex(unique, Lower(skill_data.name))
    IN  IF at = 0 THEN Append(unique, skill_data)
        ELSE IF skill_data.confidence > unique[at].confidence
        THEN [unique EXCEPT ![at] = skill_data]
        ELSE unique

RECURSIVE UniqueLoop(_, _, _)
UniqueLoop(data, k, unique) ==
    IF k > Len(data) THEN unique
    ELSE UniqueLoop(data, k + 1, UniqueStep(unique, data[k]))

\* the list of skills extract_skills_from_resume returns
extract_skills_from_resume(entities, doc, ner_ok) ==
    IF ~ner_ok THEN <<>>
    ELSE UniqueLoop(ExtractedSkillData(entities, doc, 1), 1, <<>>)

(***************************************************************************)
(* skill_extractor.py: scoring, ranking and the phase 1 entry points.  A   *)
(* resume is given by what the extraction methods find in it.  Scores and  *)
(* confidences are in hundredths.                                          *)
(***************************************************************************)
MIN_SKILL_CONFIDENCE == 60
MAX_SKILLS_PER_RESUME == 50

method_scores == [taxonomy |-> 80, pattern |-> 70, ner |-> 60, section |-> 90]

\* per evidence whose surroundings hold one of positive_contexts: 0.05
calculate_context_boost(skill, resume) ==
    IF resume.positive THEN Min2(5 * Len(skill.evidence), 20) ELSE 0

\* the levels of level_patterns, in the order of the dict
level_patterns == <<"Expert", "Advanced", "Intermediate", "Beginner">>

NoCues == <<>>

\* the levels one of whose indicators stands in the 50 characters around
\* the evidence; resume.cues gives them for the evidences that have any
WindowLevels(resume, evidence) ==
    IF evidence \in DOMAIN resume.cues THEN resume.cues[evidence] ELSE {}

\* the first level of level_patterns among the levels
FirstLevel(levels) ==
    level_patterns[CHOOSE i \in DOMAIN level_patterns :
                      /\ level_patterns[i] \in levels
                      /\ \A j \in 1..(i - 1) : level_patterns[j] \notin levels]

\* _determine_skill_level: the first evidence with a cue decides; it runs
\* before the update that stores 'frequency', so skill.get('frequency', 0)
\* is 0
determine_skill_level(skill, resume) ==
    LET cued == {k \in DOMAIN skill.evidence :
                    WindowLevels(resume, skill.evidence[k]) # {}}
    IN  IF cued # {}
        THEN FirstLevel(WindowLevels(resume,
                 skill.evidence[CHOOSE k \in cued : \A j \in cued : k <= j]))
        ELSE LET evidence_count == Len(skill.evidence)
                 frequency == 0
             IN  IF evidence_count >= 3 \/ frequency >= 3 THEN "Advanced"
                 ELSE IF evidence_count >= 2 \/ frequency >= 2 THEN "Intermediate"
                 ELSE "Beginner"

NoCounts == <<>>

\* text_lower.count(skill_lower): resume.counts gives it for the names whose
\* count differs from resume.frequency
CountOf(resume, name) ==
    IF name \in DOMAIN resume.counts THEN resume.counts[name]
    ELSE resume.frequency

IsTechnical(category) ==
    category \in {"technical_skills.programming",
                  "technical_skills.mobile_development"}

\* the sums of _score_skills that binary floating point leaves just under
\* the decimal value, so that int(final_score * 100) is one less than the
\* hundredths of the confidence: <<base of the method, number of methods,
\* frequency boost, evidence boost, context boost, category boost>>, in
\* hundredths, the sum taken in the order of the code
TruncatedSums ==
    {
      <<50, 0, 0, 9, 10, 10>>, <<50, 0, 10, 6, 0, 10>>, <<50, 0, 10, 6, 10, 10>>,
      <<50, 0, 10, 6, 15, 10>>, <<50, 0, 10, 6, 20, 5>>, <<50, 0, 10, 6, 20, 10>>,
      <<50, 0, 10, 9, 0, 10>>, <<50, 0, 10, 9, 10, 10>>, <<50, 0, 10, 9, 20, 10>>,
      <<50, 0, 15, 6, 10, 10>>, <<50, 0, 20, 0, 10, 10>>, <<50, 0, 20, 0, 20, 10>>,
      <<50, 0, 20, 9, 0, 10>>, <<50, 0, 20, 9, 10, 10>>, <<50, 1, 0, 6, 0, 10>>,
      <<50, 1, 0, 6, 10, 10>>, <<50, 1, 0, 6, 15, 10>>, <<50, 1, 0, 6, 20, 5>>,
      <<50, 1, 0, 6, 20, 10>>, <<50, 1, 0, 9, 0, 10>>, <<50, 1, 0, 9, 10, 10>>,
      <<50, 1, 0, 9, 20, 10>>, <<50, 1, 5, 6, 10, 10>>, <<50, 1, 10, 0, 10, 10>>,
      <<50, 1, 10, 0, 20, 10>>, <<50, 1, 10, 9, 0, 10>>, <<50, 1, 10, 9, 10, 10>>,
      <<50, 2, 0, 0, 10, 10>>, <<50, 2, 0, 0, 20, 10>>, <<50, 2, 0, 9, 0, 10>>,
      <<50, 2, 0, 9, 10, 10>>, <<50, 2, 10, 0, 0, 10>>, <<50, 2, 10, 0, 10, 10>>,
      <<50, 2, 10, 6, 0, 5>>, <<50, 2, 10, 6, 0, 10>>, <<50, 2, 10, 9, 0, 10>>,
      <<50, 2, 20, 0, 0, 10>>, <<60, 0, 0, 6, 0, 10>>, <<60, 0, 0, 6, 10, 10>>,
      <<60, 0, 0, 6, 15, 10>>, <<60, 0, 0, 6, 20, 5>>, <<60, 0, 0, 6, 20, 10>>,
      <<60, 0, 0, 9, 0, 10>>, <<60, 0, 0, 9, 10, 10>>, <<60, 0, 0, 9, 20, 10>>,
      <<60, 0, 5, 6, 10, 10>>, <<60, 0, 10, 0, 10, 10>>, <<60, 0, 10, 0, 20, 10>>,
      <<60, 0, 10, 9, 0, 10>>, <<60, 0, 10, 9, 10, 10>>, <<60, 1, 0, 0, 10, 10>>,
      <<60, 1, 0, 0, 20, 10>>, <<60, 1, 0, 9, 0, 10>>, <<60, 1, 0, 9, 10, 10>>,
      <<60, 1, 10, 0, 0, 10>>, <<60, 1, 10, 0, 10, 10>>, <<60, 1, 10, 6, 0, 5>>,
      <<60, 1, 10, 6, 0, 10>>, <<60, 1, 10, 9, 0, 10>>, <<60, 1, 20, 0, 0, 10>>,
      <<70, 0, 0, 0, 10, 10>>, <<70, 0, 0, 0, 20, 10>>, <<70, 0, 0, 9, 0, 10>>,
      <<70, 0, 0, 9, 10, 10>>, <<70, 0, 10, 0, 0, 10>>, <<70, 0, 10, 0, 10, 10>>,
      <<70, 0, 10, 6, 0, 5>>, <<70, 0, 10, 6, 0, 10>>, <<70, 0, 10, 9, 0, 10>>,
      <<70, 0, 20, 0, 0, 10>>, <<70, 1, 0, 0, 0, 10>>, <<70, 1, 0, 0, 10, 10>>,
      <<70, 1, 0, 6, 0, 5>>, <<70, 1, 0, 6, 0, 10>>, <<70, 1, 0, 9, 0, 10>>,
      <<70, 1, 10, 0, 0, 10>>, <<70, 2, 0, 0, 0, 10>> }

score_skill(skill, resume) ==
    LET base == DictGet(method_scores, skill.extraction_method, 50)
        base_score ==
            IF skill.extraction_methods # {}
            THEN Min2(base + Cardinality(skill.extraction_methods) * 10, 100)
            ELSE base
        frequency == CountOf(resume, skill.name)
        frequency_boost == Min2(frequency * 5, 20)
        evidence_boost == Min2(Len(skill.evidence) * 3, 15)
        context_boost == calculate_context_boost(skill, resume)
        category_boost == IF IsTechnical(skill.category) THEN 10 ELSE 5
        final_score ==
            Min2(base_score + frequency_boost + evidence_boost + context_boost
                 + category_boost, 100)
        truncated ==
            <<base, Cardinality(skill.extraction_methods), frequency_boost,
              evidence_boost, context_boost, category_boost>> \in TruncatedSums
    IN  [name |-> skill.name, category |-> skill.category,
         evidence |-> skill.evidence,
         extraction_method |-> skill.extraction_method,
         extraction_methods |-> skill.extraction_methods,
         score |-> IF truncated THEN final_score - 1 ELSE final_score,
         confidence |-> final_score,
         level |-> determine_skill_level(skill, resume),
         frequency |-> frequency]

score_skills(skills, resume) ==
    [k \in DOMAIN skills |-> score_skill(skills[k], resume)]

filter_and_rank_skills(skills) ==
    LET filtered_skills ==
            SelectSeq(skills, LAMBDA x : x.confidence >= MIN_SKILL_CONFIDENCE)
    IN  StableSort(filtered_skills,
            [k \in DOMAIN filtered_skills |-> 0 - filtered_skills[k].score])

\* the outcome of a call: a value, or an exception raised
Returned(value) == [raised |-> "", value |-> value]
Raised(why) == [raised |-> why, value |-> <<>>]
IsRaised(x) == x.raised # ""

\* extract_skills_phase1.  tagger is "loaded" (the spaCy model), "blank"
\* (spacy.blank after OSError: no sentence boundaries, so doc.sents raises
\* in _find_evidence, and no entities) or "fails" (the call of nlp raises).
extract_skills_phase1(resume, tagger) ==
    IF ~resume.long THEN Returned(<<>>)
    ELSE IF tagger = "fails" THEN Raised("nlp")
    ELSE IF tagger = "blank" /\ resume.in_text # {} THEN Raised("doc.sents")
    ELSE LET all_skills ==
                 extract_taxonomy_skills(resume.found, 1)
                 \o extract_pattern_skills(resume.pattern, 1)
                 \o (IF tagger = "blank" THEN <<>>
                     ELSE extract_known_skills(resume.ner, "ner", 20, 1))
                 \o extract_known_skills(resume.section, "section", 30, 1)
             normalized_skills == normalize_and_merge_skills(all_skills)
             scored_skills == score_skills(normalized_skills, resume)
             final_skills == filter_and_rank_skills(scored_skills)
         IN  Returned(TakeFirst(final_skills, MAX_SKILLS_PER_RESUME))

NoError == "no error"

\* lines 657-668: the skills in the format of the API
FormattedSkills(skills) ==
    [i \in DOMAIN skills |->
        [id |-> i - 1, name |-> skills[i].name,
         category |-> skills[i].category,
         score |-> skills[i].score, level |-> skills[i].level,
         confidence |-> skills[i].confidence,
         evidence |-> TakeFirst(skills[i].evidence, 3)]]

\* the result analyze_resume_phase1 builds from the outcome of the extraction
Phase1Response(extracted) ==
    IF IsRaised(extracted)
    THEN [skills |-> <<>>, error |-> extracted.raised]
    ELSE [skills |-> FormattedSkills(extracted.value), error |-> NoError]

analyze_resume_phase1(resume, tagger) ==
    Phase1Response(extract_skills_phase1(resume, tagger))

(***************************************************************************)
(* State machine of the merging of mentions                                *)
(***************************************************************************)
TaxonomyEvidence == {<<>>, <<1>>, <<1, 2, 3>>}
PatternCands == {"PYTHON", "py", "rust lang", "RUST LANG"}
NerCands == {"Python3", "Rust Lang"}
SectionCands == {"Swift", "Py"}

MergeInputs ==
    [op : {"mentions"},
     found : [{"python", "python3", "swift"} -> TaxonomyEvidence],
     pattern : SeqsUpTo(PatternCands, MaxPatternCands),
     ner : SeqsUpTo(NerCands, 1),
     section : SeqsUpTo(SectionCands, 1),
     all_skills : {<<>>},
     out : {<<>>}]

\* texts whose sentences name Python by the synonym "Py" only, so that
\* _find_evidence, which looks for the canonical name, finds nothing
SynonymInputs ==
    [op : {"mentions"},
     found : {[key \in {"python", "python3", "swift"} |-> <<>>]},
     pattern : SeqsUpTo({"rust lang"}, 1),
     ner : {<<"Py", "Py">>, <<"Py", "Py", "Py">>},
     section : {<<>>},
     all_skills : {<<>>},
     out : {<<>>}]

PlainContext == [years |-> NoYears, between |-> 0, phrases |-> {}]
\* "I have 5 years of Python and AWS experience": the 50 characters either
\* side of each mention hold the whole sentence
FiveYearsOfPythonAndAws == [years |-> 5, between |-> 3, phrases |-> {}]
EntityChoices ==
    { [entity_group |-> "SKILL", word |-> "Python", score |-> 90,
       context |-> [years |-> NoYears, between |-> 0, phrases |-> {"expert in"}]],
      [entity_group |-> "SKILL", word |-> "python", score |-> 95,
       context |-> PlainContext],
      [entity_group |-> "SKILL", word |-> " Python", score |-> NullScore,
       context |-> [years |-> 3, between |-> 0, phrases |-> {"learning"}]],
      [entity_group |-> "SKILL", word |-> "Python3", score |-> 80,
       context |-> [years |-> NoYears, between |-> 0, phrases |-> {"exposure to"}]],
      [entity_group |-> "SKILL", word |-> "SQL", score |-> 85,
       context |-> [years |-> 6, between |-> 0, phrases |-> {"exposure to"}]],
      [entity_group |-> "SKILL", word |-> "Python", score |-> 97,
       context |-> FiveYearsOfPythonAndAws],
      [entity_group |-> "SKILL", word |-> "AWS", score |-> 97,
       context |-> FiveYearsOfPythonAndAws],
      [entity_group |-> "SKILL", word |-> "Py", score |-> 99,
       context |-> PlainContext],
      [entity_group |-> "ORG", word |-> "SQL", score |-> 99,
       context |-> PlainContext] }
ExtractDocs == {NoDoc, <<[text |-> "Python3", pos |-> "VERB"]>>}

ExtractInputs ==
    [op : {"entities"},
     entities : SeqsUpTo(EntityChoices, MaxEntities),
     doc : ExtractDocs,
     ner_ok : BOOLEAN,
     out : {<<>>}]

InitMerge ==
    /\ ga = Idle
    /\ rc = Idle
    /\ lk = Idle
    /\ EcIdle
    /\ mg \in MergeInputs \cup SynonymInputs \cup ExtractInputs
    /\ PsIdle

\* extract_skills_phase1 up to the merged list
NormalizeAndMerge ==
    /\ mg.op = "mentions"
    /\ LET all_skills ==
              extract_taxonomy_skills(mg.found, 1)
              \o extract_pattern_skills(mg.pattern, 1)
              \o extract_known_skills(mg.ner, "ner", 20, 1)
              \o extract_known_skills(mg.section, "section", 30, 1)
       IN  mg' = [mg EXCEPT !.op = "merged",
                            !.all_skills = all_skills,
                            !.out = normalize_and_merge_skills(all_skills)]
    /\ UNCHANGED NotMg

ExtractSkillsFromResume ==
    /\ mg.op = "entities"
    /\ mg' = [mg EXCEPT !.op = "extracted",
                        !.out = extract_skills_from_resume(mg.entities, mg.doc, mg.ner_ok)]
    /\ UNCHANGED NotMg

\* what the scoring reads in the resume text: whether a positive verb
\* stands near the mentions, how often a skill name occurs, and the level
\* cues around the evidences
CueChoices ==
    { NoCues,
      (1 :> {"Beginner"}) @@ (2 :> {"Expert"}),
      (1 :> {"Advanced", "Beginner"}),
      (11 :> {"Intermediate"}) }
\* a text that names Python by its synonym "Py" only and holds "rust lang"
\* twice
PyAndRustCounts == ("Python" :> 0) @@ ("Rust Lang" :> 2)
ScoreTraits ==
    [positive : BOOLEAN, frequency : {1, 3}, cues : CueChoices,
     counts : {NoCounts, PyAndRustCounts}]
ConfiguredMaxSkills == {2, MAX_SKILLS_PER_RESUME}

\* extract_skills_phase1 from the merged list on: scoring, filtering,
\* ranking and the cut to config.MAX_SKILLS_PER_RESUME
ScoreAndRank ==
    /\ mg.op = "merged"
    /\ \E resume \in ScoreTraits, max_skills \in ConfiguredMaxSkills :
          LET scored_skills == score_skills(mg.out, resume)
          IN  mg' = [op |-> "ranked",
                     all_skills |-> mg.all_skills,
                     normalized_skills |-> mg.out,
                     resume |-> resume,
                     max_skills |-> max_skills,
                     scored_skills |-> scored_skills,
                     out |-> TakeFirst(filter_and_rank_skills(scored_skills),
                                       max_skills)]
    /\ UNCHANGED NotMg

NextMerge ==
    \/ NormalizeAndMerge
    \/ ExtractSkillsFromResume
    \/ ScoreAndRank

SpecMerge == InitMerge /\ [][NextMerge]_vars

(***************************************************************************)
(* gap_analyzer.py, recommendation_engine.py, resume_parser.py: the role   *)
(* lookup, the phase 2 and phase 3 entry points and parse_resume_text.     *)
(* meta.latencyMs is wall-clock time and is left out of the results.       *)
(***************************************************************************)
\* a budgetLimit of null in the preferences
NullBudget == -1

\* the loop of generate_recommendations; `budget_limit - total_cost` raises
\* TypeError on a null budget as soon as a gap has courses
RECURSIVE GenerateAll(_)
GenerateAll(st) ==
    IF st.op # "loop" THEN Returned(st.recommendations)
    ELSE LET gap == st.sorted_gaps[st.i]
             courses ==
                 find_courses_for_skill(gap.skillName,
                     get_recommended_difficulty(gap.currentLevel, gap.targetLevel))
         IN  IF /\ st.budget_limit = NullBudget
                /\ st.total_time < st.time_limit
                /\ courses # <<>>
             THEN Raised("TypeError")
             ELSE GenerateAll(GenerateStep(st))

\* RecommendationEngine.generate_recommendations with its defaults
generate_recommendations(gaps, user_prefs) ==
    IF gaps = <<>> THEN Returned(<<>>)
    ELSE GenerateAll(
             [op |-> "loop", gaps |-> gaps, sorted_gaps |-> SortedGaps(gaps),
              i |-> 1,
              budget_limit |-> DictGet(user_prefs, "budgetLimit", 100000),
              time_limit |-> DictGet(user_prefs, "timeLimit", 1000),
              learning_style |-> DictGet(user_prefs, "learningStyle", "mixed"),
              recommendations |-> <<>>, total_time |-> 0, total_cost |-> 0])

RECURSIVE SumField(_, _)
SumField(q, field) ==
    IF q = <<>> THEN 0 ELSE q[1][field] + SumField(Tail(q), field)

\* max(1, int(total_hours / hours_per_week)) if hours_per_week > 0 else 0,
\* total_hours in tenths of an hour
LearningPathWeeks(total_hours, hours_per_week) ==
    IF hours_per_week > 0
    THEN Max2(1, total_hours \div (10 * hours_per_week))
    ELSE 0

\* the steps follow the priority groups in ascending priority, each group in
\* the order of the recommendations
create_learning_path(recommendations, user_prefs) ==
    IF recommendations = <<>>
    THEN [totalHours |-> 0, totalCost |-> 0, estimatedWeeks |-> 0, steps |-> <<>>]
    ELSE LET hours_per_week == DictGet(user_prefs, "hoursPerWeek", 10)
             ordered == StableSort(recommendations,
                            [k \in DOMAIN recommendations |->
                                recommendations[k].priority])
             total_hours == SumField(recommendations, "estimatedHours")
         IN  [totalHours |-> total_hours,
              totalCost |-> SumField(recommendations, "price"),
              estimatedWeeks |-> LearningPathWeeks(total_hours, hours_per_week),
              hoursPerWeek |-> hours_per_week,
              steps |-> [k \in DOMAIN ordered |->
                            [id |-> k, title |-> ordered[k].skillName,
                             estimatedHours |-> ordered[k].estimatedHours,
                             priority |-> ordered[k].priority,
                             resources |-> <<ordered[k]>>]]]

\* the result generate_recommendations_phase3 builds from the outcome of
\* generate_recommendations
Phase3Response(generated, user_prefs) ==
    IF IsRaised(generated)
    THEN [recommendations |-> <<>>,
          learningPath |-> [totalHours |-> 0, estimatedWeeks |-> 0,
                            steps |-> <<>>],
          error |-> generated.raised]
    ELSE [recommendations |-> generated.value,
          learningPath |-> create_learning_path(generated.value, user_prefs)]

generate_recommendations_phase3(gaps, user_prefs) ==
    Phase3Response(generate_recommendations(gaps, user_prefs), user_prefs)

\* dict.copy() followed by update()
Updated(d, upd) ==
    [k \in DOMAIN d \cup DOMAIN upd |-> IF k \in DOMAIN upd THEN upd[k] ELSE d[k]]

create_error_response(error_message) ==
    [skills |-> <<>>, gaps |-> <<>>, recommendations |-> <<>>,
     learningPath |-> [totalHours |-> 0, estimatedWeeks |-> 0, steps |-> <<>>],
     summary |-> [strengths |-> <<>>, improvements |-> <<>>,
                  error |-> error_message],
     meta |-> [model |-> "resume-analyzer-error", error |-> error_message]]

generate_summary(analysis_result) ==
    LET skills == analysis_result.skills
        gaps == analysis_result.gaps
        match_score == analysis_result.matchScore
        strong == SelectSeq(skills, LAMBDA x : x.score >= 80)
        high == SelectSeq(gaps, LAMBDA g : g.priority <= 2)
        overall_score == DictGet(match_score, "overall_score", 0)
    IN  [strengths |-> TakeFirst([k \in DOMAIN strong |-> strong[k].name], 5),
         improvements |-> TakeFirst([k \in DOMAIN high |-> high[k].skillName], 5),
         profileLevel |-> IF overall_score >= 80 THEN "Highly qualified"
                          ELSE IF overall_score >= 65 THEN "Well qualified"
                          ELSE IF overall_score >= 50 THEN "Moderately qualified"
                          ELSE "Developing",
         totalSkills |-> Len(skills),
         advancedSkills |->
             Cardinality({k \in DOMAIN skills :
                             skills[k].level \in {"Advanced", "Expert"}}),
         matchScore |-> overall_score,
         learningTimeEstimate |->
             DictGet(analysis_result.learningPath, "estimatedWeeks", 0)]

\* Phase2Result rebuilding the skill list without its first entry
Phase2Result_DropsFirstSkill(phase1_result, gaps, match_score) ==
    Updated(phase1_result,
            [skills |-> IF phase1_result.skills = <<>> THEN <<>>
                        ELSE Tail(phase1_result.skills),
             gaps |-> gaps, matchScore |-> match_score])

\* lines 86-90
Phase2Result(phase1_result, gaps, match_score) ==
    Updated(phase1_result, [gaps |-> gaps, matchScore |-> match_score])

\* lines 106-123: phase 3 copies the recommendations and the learning path
\* out of the result of generate_recommendations_phase3
WithSummary(phase3_result, target_role_id) ==
    Updated(phase3_result,
        [summary |-> generate_summary(phase3_result),
         meta |-> [model |-> "resume-analyzer-phase3", phase |-> 3,
                   targetRole |-> target_role_id,
                   totalRecommendations |-> Len(phase3_result.recommendations)]])

Phase3Result(phase2_result, recommendations_result, target_role_id) ==
    WithSummary(
        Updated(phase2_result,
            [recommendations |-> recommendations_result.recommendations,
             learningPath |-> recommendations_result.learningPath]),
        target_role_id)

\* lines 93-104: what follows the building of phase2_result
AfterPhase2(phase2_result, phase, target_role_id, user_prefs) ==
    IF phase = 2
    THEN Updated(phase2_result,
             [meta |-> [model |-> "resume-analyzer-phase2", phase |-> 2,
                        targetRole |-> target_role_id]])
    ELSE Phase3Result(phase2_result,
             generate_recommendations_phase3(phase2_result.gaps, user_prefs),
             target_role_id)

\* lines 68-91: what follows phase 1
AfterPhase1(phase1_result, phase, job_context, user_prefs) ==
    IF phase = 1
    THEN Updated(phase1_result,
             [meta |-> [model |-> "resume-analyzer-phase1", phase |-> 1]])
    ELSE IF "roleId" \notin DOMAIN job_context
    THEN create_error_response("Job context with roleId required for Phase 2+")
    ELSE AfterPhase2(
             Phase2Result(phase1_result,
                 analyze_gaps_phase2(phase1_result.skills, job_context.roleId),
                 calculate_match_score_of_role(phase1_result.skills,
                                               job_context.roleId)),
             phase, job_context.roleId, user_prefs)

parse_resume_text(resume, tagger, phase, job_context, user_prefs) ==
    AfterPhase1(analyze_resume_phase1(resume, tagger), phase, job_context,
                user_prefs)

(***************************************************************************)
(* State machine of the parser: one resume, tagger, job context and        *)
(* preferences; each phase is requested once, in any order.                *)
(***************************************************************************)
NoneFound == [k \in {"python", "python3", "swift"} |-> <<>>]

EmptyResume ==
    [long |-> FALSE, in_text |-> {}, found |-> NoneFound, pattern |-> <<>>,
     ner |-> <<>>, section |-> <<>>, cues |-> NoCues, positive |-> FALSE,
     frequency |-> 0, counts |-> NoCounts]
\* fewer than 50 characters that name a skill
ShortResume == [EmptyResume EXCEPT !.in_text = {"python"}, !.frequency = 1]
\* a long text in which no method finds a skill
NoSkillResume == [EmptyResume EXCEPT !.long = TRUE]
PythonResume ==
    [long |-> TRUE, in_text |-> {"python", "python3"},
     found |-> [NoneFound EXCEPT !["python"] = <<1, 2, 3>>, !["python3"] = <<3>>],
     pattern |-> <<"PYTHON">>, ner |-> <<"Python3">>, section |-> <<>>,
     cues |-> NoCues, positive |-> TRUE, frequency |-> 4,
     counts |-> NoCounts]
MixedResume ==
    [long |-> TRUE, in_text |-> {"python", "swift"},
     found |-> [NoneFound EXCEPT !["python"] = <<1>>, !["swift"] = <<2>>],
     pattern |-> <<"rust lang">>, ner |-> <<>>, section |-> <<"Swift">>,
     cues |-> [e \in {1, 2, 11, 31} |-> {"Beginner"}], positive |-> FALSE,
     frequency |-> 1, counts |-> NoCounts]
\* a long text whose only candidates come from the patterns
PatternResume ==
    [long |-> TRUE, in_text |-> {}, found |-> NoneFound,
     pattern |-> <<"rust lang", "RUST LANG">>, ner |-> <<>>, section |-> <<>>,
     cues |-> [e \in {11, 12} |-> {"Expert"}], positive |-> TRUE,
     frequency |-> 2, counts |-> NoCounts]

Resumes ==
    {EmptyResume, ShortResume, NoSkillResume, PythonResume, MixedResume,
     PatternResume}
Taggers == {"loaded", "blank", "fails"}
JobContexts == {None, [roleId |-> "software_engineer"], [roleId |-> "astronaut"]}
UserPrefs ==
    { None,
      [budgetLimit |-> 6000, hoursPerWeek |-> 10],
      [hoursPerWeek |-> 0, learningStyle |-> "video"],
      [budgetLimit |-> NullBudget] }

ParseInputs ==
    [op : {"parse"}, resume : Resumes, tagger : Taggers,
     job_context : JobContexts, user_prefs : UserPrefs,
     done : {{}}, out : {[p \in 1..3 |-> None]}]

InitParse ==
    /\ ga = Idle
    /\ rc = Idle
    /\ lk = Idle
    /\ EcIdle
    /\ MgIdle
    /\ ps \in ParseInputs

\* parse_resume_text is called with phase p
ParseResumeText(p) ==
    /\ ps.op = "parse"
    /\ p \notin ps.done
    /\ ps' = [ps EXCEPT
                !.done = @ \cup {p},
                !.out[p] = parse_resume_text(ps.resume, ps.tagger, p,
                                             ps.job_context, ps.user_prefs)]
    /\ UNCHANGED NotPs

NextParse == \E p \in 1..3 : ParseResumeText(p)

SpecParse == InitParse /\ [][NextParse]_vars

(***************************************************************************)
(* resume_parser.py, api.py: parse_resume_file and the two batch entry     *)
(* points.  A file is given by its suffix, by the text the extractor gets  *)
(* out of it, and by whether the input and output around the analysis      *)
(* works: writing the analysis file for batch_process_resumes, reading and *)
(* spooling the upload for batch_analyze_resumes.  The name of a file is   *)
(* its position in the folder or in the upload.                            *)
(***************************************************************************)
ALLOWED_EXTENSIONS == {".pdf", ".docx", ".txt"}

\* Path.suffix.lower() on the suffixes of the model
SuffixLower(suffix) == IF suffix = ".PDF" THEN ".pdf" ELSE suffix

\* the extractor returned no text, or raised
NoText == [none |-> TRUE]

\* parse_resume_file: every exception ends in the error response
parse_resume_file(file, tagger, phase, job_context) ==
    IF SuffixLower(file.suffix) \notin ALLOWED_EXTENSIONS
    THEN create_error_response("Unsupported file format")
    ELSE IF file.text = NoText
    THEN create_error_response("Could not extract text from resume")
    ELSE parse_resume_text(file.text, tagger, phase, job_context, None)

\* result.get('matchScore', {}).get('overall_score', 0)
OverallScoreOf(result) ==
    DictGet(DictGet(result, "matchScore", <<>>), "overall_score", 0)

\* the entry batch_process_resumes appends for a result it could save
ParserSuccessEntry(filename, result) ==
    [filename |-> filename, status |-> "success",
     skills_count |-> Len(result.skills),
     match_score |-> OverallScoreOf(result)]

\* one round of the loop of batch_process_resumes
ParserBatchStep(results, filename, file, result) ==
    IF SuffixLower(file.suffix) \notin ALLOWED_EXTENSIONS THEN results
    ELSE IF file.io_ok
    THEN [results EXCEPT
             !.processed = @ + 1,
             !.results = Append(@, ParserSuccessEntry(filename, result))]
    ELSE [results EXCEPT
             !.failed = @ + 1,
             !.results = Append(@, [filename |-> filename, status |-> "failed",
                                    error |-> "cannot write"])]

\* the entry batch_analyze_resumes appends for a file it could analyse
ApiSuccessEntry(filename, result, phase) ==
    [filename |-> filename, status |-> "success",
     skillsCount |-> Len(result.skills),
     matchScore |-> IF phase >= 2 THEN OverallScoreOf(result) ELSE None,
     analysis |-> result]

\* one round of the loop of batch_analyze_resumes; processed and failed are
\* the counts the response takes from the status fields
ApiBatchStep(results, filename, file, result, phase) ==
    IF SuffixLower(file.suffix) \notin ALLOWED_EXTENSIONS
    THEN [results EXCEPT
             !.failed = @ + 1,
             !.results = Append(@, [filename |-> filename, status |-> "error",
                                    error |-> "Unsupported file format"])]
    ELSE IF file.io_ok
    THEN [results EXCEPT
             !.processed = @ + 1,
             !.results = Append(@, ApiSuccessEntry(filename, result, phase))]
    ELSE [results EXCEPT
             !.failed = @ + 1,
             !.results = Append(@, [filename |-> filename, status |-> "error",
                                    error |-> "cannot read"])]

BatchStep(impl, results, filename, file, result, phase) ==
    IF impl = "parser" THEN ParserBatchStep(results, filename, file, result)
    ELSE ApiBatchStep(results, filename, file, result, phase)

FileChoices ==
    [suffix : {".txt", ".PDF", ".md"}, text : {NoText, PythonResume},
     io_ok : BOOLEAN]

BatchInputs ==
    [op : {"batch"}, impl : {"parser", "api"},
     files : SeqsUpTo(FileChoices, MaxFiles),
     tagger : {"loaded", "fails"},
     phase : {1, 2},
     job_context : {None, [roleId |-> "software_engineer"]},
     next : {1},
     results : {[processed |-> 0, failed |-> 0, results |-> <<>>]}]

InitBatch ==
    /\ ga = Idle
    /\ rc = Idle
    /\ lk = Idle
    /\ EcIdle
    /\ MgIdle
    /\ ps \in BatchInputs

\* the batch takes up its next file
ProcessNextFile ==
    /\ ps.op = "batch"
    /\ ps.next <= Len(ps.files)
    /\ ps' = [ps EXCEPT
                !.next = @ + 1,
                !.results =
                    BatchStep(ps.impl, ps.results, ps.next, ps.files[ps.next],
                              parse_resume_file(ps.files[ps.next], ps.tagger,
                                                ps.phase, ps.job_context),
                              ps.phase)]
    /\ UNCHANGED NotPs

NextBatch == ProcessNextFile

SpecBatch == InitBatch /\ [][NextBatch]_vars

(***************************************************************************)
(* Claims on gap analysis                                                  *)
(***************************************************************************)
CountIdx(entries, i) == Cardinality({k \in DOMAIN entries : entries[k].idx = i})

GapsOfType(gaps, t) == SelectSeq(gaps, LAMBDA g : g.gapType = t)

\* C1: every requirement of the role is placed in exactly one of the classes
\* strength, level gap, missing -- by comprehensive_gap_analysis, by
\* analyze_gaps (_analyze_skill_gap) and by get_recommendations.
C1_ExactlyOneClass ==
    /\ ga.op \in {"comprehensive_gap_analysis", "get_recommendations"} =>
           \A i \in 1..ga.n :
               CountIdx(ga.out.missing, i) + CountIdx(ga.out.level, i)
                   + CountIdx(ga.out.strengths, i) = 1
    /\ ga.op = "analyze_gaps" =>
           \A i \in 1..ga.n :
               /\ CountIdx(GapsOfType(ga.out, "missing"), i)
                      + CountIdx(GapsOfType(ga.out, "level"), i)
                      + (IF i \in ga.no_gap THEN 1 ELSE 0) = 1
               /\ CountIdx(ga.out, i) <= 1

C1_Witness ==
    /\ ga.op = "comprehensive_gap_analysis"
    /\ ga.n = 2
    /\ Len(ga.out.level) = 1
    /\ Len(ga.out.strengths) = 1

InRange(x) == 0 <= x /\ x <= 100

C4_ZeroImportanceScores100 ==
    /\ (ga.op \in {"comprehensive_gap_analysis", "get_recommendations"}
            /\ ga.n = 0) => FracEq(ga.out.score, 100)
    /\ (ga.op = "calculate_match_score" /\ ga.n = 0) =>
           ga.out.overall_score = 100

\* the scenario of C5: SQL required at Advanced, React at Intermediate, equal
\* weight, and a profile holding only SQL at Beginner
C5_ScenarioMatcher ==
    /\ ga.op = "calculate_match_score"
    /\ ga.in.extracted_skills = <<[name |-> "SQL", level |-> "Beginner"]>>
    /\ ga.in.role.required_skills =
           <<[skill |-> "SQL", level |-> "Advanced", priority |-> 1],
             [skill |-> "React", level |-> "Intermediate", priority |-> 1]>>

C5_ScenarioRecommender ==
    /\ ga.op = "get_recommendations"
    /\ ga.in.user_skills =
           <<[kg_skill_uri |-> "SQL", proficiency_level |-> "Beginner"]>>
    /\ ga.in.kg_requires = <<[uri |-> "SQL", importance |-> 10],
                             [uri |-> "React", importance |-> 10]>>

\* C5 as stated: in the scenario the match score is 12.5, both for the
\* group score of SkillMatcher and for get_recommendations.
C5_ScenarioScoreIs12_5 ==
    /\ C5_ScenarioMatcher => 2 * ga.out.required_score.num
                                 = 25 * ga.out.required_score.den
    /\ C5_ScenarioRecommender => 2 * ga.out.score.num = 25 * ga.out.score.den

\* C5 amended: in the scenario _calculate_skill_group_score returns 12.5
\* (reported as required_skills_score 12), and get_recommendations, which
\* requires every skill at Advanced on the scale 1..4, returns
\* 100 * (1/3) / 2 = 50/3.
C5_ScenarioScores ==
    /\ C5_ScenarioMatcher =>
           /\ 2 * ga.out.required_score.num = 25 * ga.out.required_score.den
           /\ ga.out.required_skills_score = 12
    /\ C5_ScenarioRecommender => 3 * ga.out.score.num = 50 * ga.out.score.den

C5_Witness ==
    /\ C5_ScenarioMatcher
    /\ ga.in.role.preferred_skills = <<>>
    /\ Len(ga.out.gaps) = 2

(***************************************************************************)
(* Claims on recommendation selection                                      *)
(***************************************************************************)
RECURSIVE SumPrices(_)
SumPrices(recs) == IF recs = <<>> THEN 0 ELSE recs[1].price + SumPrices(Tail(recs))

\* C6: at every point of generate_recommendations (after each course is
\* added and at the end) the prices of the recommendations sum to at most
\* the budget limit.
C6_WithinBudget ==
    rc.op \in {"loop", "generate_recommendations"} =>
        SumPrices(rc.recommendations) <= rc.budget_limit

\* a priced course was taken first and the next gap had to fall back on a
\* free course because the priced ones no longer fit
C6_Witness ==
    /\ rc.op = "generate_recommendations"
    /\ Len(rc.recommendations) = 2
    /\ rc.recommendations[1].price > 0
    /\ rc.recommendations[2].price = 0
    /\ rc.budget_limit = 6000
    /\ rc.learning_style = "structured"

\* C7: every gap handed to the recommendation stage appears in its output,
\* as a course or as a placeholder "learn {skill}" entry.
C7_EveryGapInOutput ==
    /\ rc.op = "generate_recommendations" =>
           \A g \in DOMAIN rc.gaps :
               \E r \in DOMAIN rc.recommendations :
                   rc.recommendations[r].skillName = rc.gaps[g].skillName
    /\ rc.op = "optimize_learning_path" =>
           \A g \in DOMAIN rc.gap_skills :
               \E r \in DOMAIN rc.out.optimized_path :
                   rc.out.optimized_path[r].skill = rc.gap_skills[g]

(***************************************************************************)
(* Claims on entity linking                                                *)
(***************************************************************************)
LinksOf(linked) ==
    {<<linked[k].input_skill, linked[k].kg_skill_uri>> : k \in DOMAIN linked}

\* C8: with the same input skills and the same cached embeddings, every
\* link (input skill, knowledge-base skill) made at a threshold is also made
\* at any lower threshold.
C8_LinkerMonotone ==
    (lk.op = "link" /\ lk.done = {1, 2}) =>
        \A a, b \in {1, 2} :
            lk.threshold[b] <= lk.threshold[a] =>
                LinksOf(lk.out[a]) \subseteq LinksOf(lk.out[b])

C8_Witness ==
    /\ lk.op = "link"
    /\ lk.done = {1, 2}
    /\ lk.threshold[1] = 95 /\ lk.threshold[2] = 90
    /\ lk.doc # NoDoc
    /\ Len(lk.out[1]) = 0
    /\ Len(lk.out[2]) = 1
    /\ Len(lk.skill_data_list) = 2

(***************************************************************************)
(* Claims on the evidence cache                                            *)
(***************************************************************************)
\* C9: a call of extract_skills_with_context on a text that was analysed
\* before returns the result of the first call and leaves the evidence
\* cache as it was.
C9_Idempotent ==
    [][(ret' # ret /\ ret'.text \in DOMAIN first) =>
           (ret'.result = first[ret'.text] /\ evidence_cache' = evidence_cache)]_vars

\* a text analysed at time 0 is asked for again after the clock moved on,
\* and the cached result of time 0 is what comes back
C9_Witness ==
    /\ clock = 2
    /\ ret # None
    /\ ret.text = <<"expert", "python", "sql">>
    /\ ret.result.metadata.processing_time = 0
    /\ Len(ret.result.skills) = 2
    /\ DOMAIN first = Texts

(***************************************************************************)
(* Claims on merging and deduplication                                     *)
(***************************************************************************)
\* the canonical skill a merged entry of the skill extractor stands for
TaxonomySkillOf(name) ==
    LET normalized == normalize_skill(name)
    IN  IF normalized # None THEN normalized.canonical ELSE name

\* the knowledge-base skill a name stands for by its name or one of its
\* synonyms, the lower-cased name when there is none
KgSkillOf(name) ==
    LET hits == {k \in DOMAIN kg_skills_cache :
                    \/ Lower(kg_skills_cache[k].name) = Lower(name)
                    \/ \E j \in DOMAIN kg_skills_cache[k].synonyms :
                          Lower(kg_skills_cache[k].synonyms[j]) = Lower(name)}
    IN  IF hits = {} THEN Lower(name)
        ELSE kg_skills_cache[CHOOSE k \in hits : TRUE].uri

\* the merged list of the skill extractor holds one entry per skill
MergedOnePerSkill ==
    mg.op = "merged" =>
        \A i, j \in DOMAIN mg.out :
            i # j => TaxonomySkillOf(mg.out[i].name) # TaxonomySkillOf(mg.out[j].name)

\* C10: after normalization and merging no two entries of the list refer
\* to the same skill, for _normalize_and_merge_skills and for the
\* deduplicated list of extract_skills_from_resume.
C10_OneEntryPerSkill ==
    /\ MergedOnePerSkill
    /\ mg.op = "extracted" =>
           \A i, j \in DOMAIN mg.out :
               i # j => KgSkillOf(mg.out[i].name) # KgSkillOf(mg.out[j].name)

(***************************************************************************)
(* Claims on error handling and on the phases of the parser                *)
(***************************************************************************)
\* C11: analysing an empty or too short text yields a result marked as an
\* error, with no skills, that differs from the result of a successful
\* analysis that found no skills.
C11_EmptyInputIsError ==
    (ps.op = "parse" /\ 1 \in ps.done /\ ~ps.resume.long) =>
        /\ ps.out[1].skills = <<>>
        /\ ps.out[1].error # NoError
        /\ ps.out[1] # parse_resume_text(NoSkillResume, "loaded", 1,
                                         ps.job_context, ps.user_prefs)

\* a profile that meets every requirement of the software engineer role
FullyQualifiedSkills ==
    LET role == job_roles["software_engineer"]
        reqs == role.required_skills \o role.preferred_skills
    IN  [k \in DOMAIN reqs |-> [name |-> reqs[k].skill, level |-> "Expert"]]

\* the profiles whose analysis the result for an unknown role is compared to
KnownRoleProfiles ==
    {FullyQualifiedSkills, <<>>, <<[name |-> "Python", level |-> "Beginner"]>>}

\* C12: the gap analysis of a role id that does not exist returns a value
\* that no successful analysis of an existing role returns, in particular
\* not the value that means no gaps were found.
C12_RoleNotFoundIsExplicit ==
    (ga.op = "analyze_role" /\ get_role_requirements(ga.in.role_id) = None) =>
        \A role_id \in DOMAIN job_roles, profile \in KnownRoleProfiles :
            /\ ga.gaps # analyze_gaps_of_role(profile, role_id)
            /\ ga.match_score # calculate_match_score_of_role(profile, role_id)

\* the result carries an error annotation
IsAnnotated(result) ==
    \/ "error" \in DOMAIN result /\ result.error # NoError
    \/ "error" \in DOMAIN result.meta

\* phase p of the parser fails on the inputs of the state: the job context
\* lacks the role id, or the recommendation engine raises
LaterPhaseFails(p) ==
    \/ "roleId" \notin DOMAIN ps.job_context
    \/ /\ p = 3
       /\ IsRaised(generate_recommendations(
              analyze_gaps_phase2(
                  analyze_resume_phase1(ps.resume, ps.tagger).skills,
                  ps.job_context.roleId),
              ps.user_prefs))

\* C13: when phase 1 succeeds and phase 2 or 3 fails, parse_resume_text
\* returns the skills of phase 1 together with an annotation of the failure.
C13_PartialResultKept ==
    ps.op = "parse" =>
        \A p \in {2, 3} \cap ps.done :
            LET phase1_result == analyze_resume_phase1(ps.resume, ps.tagger)
            IN  (/\ phase1_result.error = NoError
                 /\ phase1_result.skills # <<>>
                 /\ LaterPhaseFails(p)) =>
                    /\ ps.out[p].skills = phase1_result.skills
                    /\ IsAnnotated(ps.out[p])

IsSuccess(result) == result.meta.model # "resume-analyzer-error"

\* every key of the earlier result except meta is in the later one, unchanged
Extends(later, earlier, added) ==
    /\ \A k \in DOMAIN earlier \ {"meta"} : k \in DOMAIN later /\ later[k] = earlier[k]
    /\ added \subseteq DOMAIN later

\* C14: for the same inputs the successful phase-2 result holds the phase-1
\* skills unchanged plus gaps and match score, and the successful phase-3
\* result holds the phase-2 skills, gaps and match score unchanged plus
\* recommendations and learning path.
C14_PhasesExtend ==
    ps.op = "parse" =>
        /\ ({1, 2} \subseteq ps.done /\ IsSuccess(ps.out[2])) =>
               Extends(ps.out[2], ps.out[1], {"gaps", "matchScore"})
        /\ ({2, 3} \subseteq ps.done /\ IsSuccess(ps.out[3])) =>
               /\ IsSuccess(ps.out[2])
               /\ Extends(ps.out[3], ps.out[2], {"recommendations", "learningPath"})

\* all three phases succeeded on a resume with skills, gaps and courses
C14_Witness ==
    /\ ps.op = "parse"
    /\ ps.done = {1, 2, 3}
    /\ IsSuccess(ps.out[3])
    /\ Len(ps.out[1].skills) = 3
    /\ ps.out[3].gaps # <<>>
    /\ ps.out[3].recommendations # <<>>
    /\ ps.out[3].skills = ps.out[1].skills

\* the resume as the taxonomy, pattern and section methods see it
WithoutNer(resume) == [resume EXCEPT !.ner = <<>>]

\* C15: with the tagger absent or failing, extraction still returns the
\* skills found by the taxonomy, pattern and section methods.
C15_DegradesWithoutTagger ==
    (ps.op = "parse" /\ 1 \in ps.done /\ ps.tagger \in {"blank", "fails"}) =>
        ps.out[1].skills =
            analyze_resume_phase1(WithoutNer(ps.resume), "loaded").skills

\* C16: for a non-empty recommendation list and hoursPerWeek > 0 the
\* estimated weeks hold the total hours at the weekly rate (hours in tenths).
C16_WeeksHoldTotalHours ==
    (ps.op = "parse" /\ 3 \in ps.done /\ IsSuccess(ps.out[3])) =>
        LET learning_path == ps.out[3].learningPath
        IN  (/\ ps.out[3].recommendations # <<>>
             /\ learning_path.hoursPerWeek > 0) =>
                learning_path.estimatedWeeks * learning_path.hoursPerWeek * 10
                    >= learning_path.totalHours

\* the entities of the input that enter unique_skills_map under the key
MentionsOf(key) ==
    {k \in DOMAIN mg.entities :
        /\ mg.entities[k].entity_group \in {"SKILL", "B-SKILL", "I-SKILL"}
        /\ Lower(CleanWord(mg.entities[k].word)) = key}

\* C17: a skill all of whose mentions stand with a years-of-experience cue
\* of 5 or more years is extracted with proficiency Expert; the cue of
\* "I have 5 years of Python and AWS experience" is one of them.
C17_FiveYearsIsExpert ==
    mg.op = "extracted" =>
        \A j \in DOMAIN mg.out :
            (\A k \in MentionsOf(Lower(mg.out[j].name)) :
                mg.entities[k].context.years >= 5)
                => mg.out[j].proficiency_level = "Expert"
(***************************************************************************)
(* Claims on the selection made by the linker                              *)
(***************************************************************************)
\* the similarities of the i-th input skill to the knowledge-base skills
RowOf(i) == lk.sim[NormalizedInputSkill(lk.skill_data_list[i].name, lk.doc)]

HighestSimilarity(i) ==
    CHOOSE v \in {RowOf(i)[k] : k \in DOMAIN kg_skills_cache} :
        \A k \in DOMAIN kg_skills_cache : RowOf(i)[k] <= v

\* the input skills whose highest similarity reaches the threshold of engine
\* e, in input order
AcceptedInputs(e) ==
    SelectSeq([i \in DOMAIN lk.skill_data_list |-> i],
              LAMBDA i : HighestSimilarity(i) >= lk.threshold[e])

\* C18: with a working embedder, link_entities_to_kg returns, in input
\* order, one link for each input skill whose highest similarity is >= the
\* threshold and none for the others; the link goes to a knowledge-base
\* skill of that highest similarity, the first of them in cache order.
C18_LinksToFirstBest ==
    (lk.op = "link" /\ lk.embedder_ok) =>
        \A e \in lk.done :
            LET accepted == AcceptedInputs(e)
                linked == lk.out[e]
            IN  /\ Len(linked) = Len(accepted)
                /\ \A n \in DOMAIN linked :
                      LET i == accepted[n]
                      IN  /\ linked[n].input_skill = lk.skill_data_list[i].name
                          /\ linked[n].similarity_score = HighestSimilarity(i)
                          /\ \E k \in DOMAIN kg_skills_cache :
                                /\ kg_skills_cache[k].uri = linked[n].kg_skill_uri
                                /\ RowOf(i)[k] = HighestSimilarity(i)
                                /\ \A j \in 1..(k - 1) :
                                      RowOf(i)[j] < HighestSimilarity(i)

\* an input skill equally similar to both knowledge-base skills, at exactly
\* the threshold, linked to the first of them, next to a rejected one
C18_Witness ==
    /\ lk.op = "link"
    /\ lk.embedder_ok
    /\ 1 \in lk.done
    /\ Len(lk.skill_data_list) = 2
    /\ RowOf(1)[1] = RowOf(1)[2]
    /\ HighestSimilarity(1) = lk.threshold[1]
    /\ HighestSimilarity(2) < lk.threshold[1]
    /\ Len(lk.out[1]) = 1
    /\ lk.out[1][1].kg_skill_uri = kg_skills_cache[1].uri
\* C19: with a working embedder, the list link_entities_to_kg returns has
\* one entry for every input skill, in input order, whether the skill was
\* linked or not.
C19_UnlinkedKept ==
    (lk.op = "link" /\ lk.embedder_ok) =>
        \A e \in lk.done :
            /\ Len(lk.out[e]) = Len(lk.skill_data_list)
            /\ \A i \in DOMAIN lk.out[e] :
                  lk.out[e][i].input_skill = lk.skill_data_list[i].name

\* C20: the list link_entities_to_kg returns holds no two entries, made for
\* different input strings, with the same kg_skill_uri.
C20_OneEntryPerKgSkill ==
    lk.op = "link" =>
        \A e \in lk.done :
            \A i, j \in DOMAIN lk.out[e] :
                lk.out[e][i].input_skill # lk.out[e][j].input_skill =>
                    lk.out[e][i].kg_skill_uri # lk.out[e][j].kg_skill_uri
(***************************************************************************)
(* Claims on the order of the gaps and on the readiness score              *)
(***************************************************************************)
\* the number of levels between the current and the target level of a gap,
\* a missing skill standing at level 0
Deficit(gap) ==
    gap_level_hierarchy[gap.targetLevel]
        - (IF gap.currentLevel = "None" THEN 0
           ELSE gap_level_hierarchy[gap.currentLevel])

\* priority 1 first; among equal priorities the larger deficit first
MostCriticalFirst(gaps) ==
    \A i, j \in DOMAIN gaps :
        i < j =>
            \/ gaps[i].priority < gaps[j].priority
            \/ /\ gaps[i].priority = gaps[j].priority
               /\ Deficit(gaps[i]) >= Deficit(gaps[j])

C22_StopsWhenExhausted ==
    [][(/\ rc.op = "loop"
        /\ rc.total_cost > 0
        /\ \/ rc.total_time >= rc.time_limit
           \/ rc.total_cost >= rc.budget_limit)
       => rc'.recommendations = rc.recommendations]_vars
\* the least integer that is at least n / d, for n >= 0 and d > 0
CeilDiv(n, d) == (n + d - 1) \div d

\* C23: in the schedule of _apply_spaced_repetition every item occupies
\* max(1, ceil(duration_hours / weekly_hours)) weeks, the first item starts
\* in week 1 and every other item in the week after the one before it ends.
C23_WeeksAreCeiling ==
    (rc.op = "optimize_learning_path" /\ ~rc.out.fallback) =>
        LET scheduled_path == rc.out.optimized_path
            weekly_hours == rc.out.weekly_commitment
        IN  \A k \in DOMAIN scheduled_path :
                /\ scheduled_path[k].end_week - scheduled_path[k].start_week + 1
                      = Max2(1, CeilDiv(scheduled_path[k].duration_hours, weekly_hours))
                /\ scheduled_path[k].start_week
                      = IF k = 1 THEN 1 ELSE scheduled_path[k - 1].end_week + 1
(***************************************************************************)
(* Claims on the scoring, the ranking and the level of the skills          *)
(***************************************************************************)
\* the extraction methods of the mentions that were merged into the skill
DistinctMethods(name) ==
    {mg.all_skills[i].extraction_method :
        i \in {j \in DOMAIN mg.all_skills : mg.all_skills[j].name = name}}

\* the boosts of _score_skills other than the one for the methods
OtherBoosts(skill, resume) ==
    Min2(CountOf(resume, skill.name) * 5, 20) + Min2(Len(skill.evidence) * 3, 15)
    + calculate_context_boost(skill, resume)
    + (IF IsTechnical(skill.category) THEN 10 ELSE 5)

\* C24: the confidence of a scored skill is made of the score of its
\* extraction method plus 0.1 x (number of distinct methods that found it
\* - 1), capped at 1, plus the other boosts, capped at 1.
C24_MultiMethodBonus ==
    mg.op = "ranked" =>
        \A k \in DOMAIN mg.scored_skills :
            LET skill == mg.normalized_skills[k]
                bonus == 10 * (Cardinality(DistinctMethods(skill.name)) - 1)
            IN  mg.scored_skills[k].confidence =
                    Min2(Min2(method_scores[skill.extraction_method] + bonus, 100)
                         + OtherBoosts(skill, mg.resume), 100)

\* the names of the skills of a list
NamesOf(skills) == {skills[k].name : k \in DOMAIN skills}

\* C25: the list extract_skills_phase1 returns holds only skills whose
\* confidence is at least MIN_SKILL_CONFIDENCE, in descending order of
\* confidence, at most the configured maximum of them, no skill it leaves
\* out has a higher confidence than one it keeps, and every confidence
\* lies within [0, 1]
C25_RankedByConfidence ==
    mg.op = "ranked" =>
        /\ \A k \in DOMAIN mg.out :
              /\ mg.out[k].confidence >= MIN_SKILL_CONFIDENCE
              /\ mg.out[k].confidence \in 0..100
        /\ \A j, k \in DOMAIN mg.out :
              j < k => mg.out[j].confidence >= mg.out[k].confidence
        /\ Len(mg.out) <= mg.max_skills
        /\ \A d \in DOMAIN mg.scored_skills, k \in DOMAIN mg.out :
              mg.scored_skills[d].name \notin NamesOf(mg.out)
                  => mg.scored_skills[d].confidence <= mg.out[k].confidence

\* the levels with an indicator in the window of some evidence of the skill
AllWindowLevels(skill, resume) ==
    UNION {WindowLevels(resume, skill.evidence[k]) : k \in DOMAIN skill.evidence}

\* C26: when the windows around the evidences of a skill hold level
\* keywords, the level is the highest of them in the order Expert,
\* Advanced, Intermediate, Beginner, whatever lower keywords the same or
\* other windows hold
C26_HighestKeywordWins ==
    mg.op = "ranked" =>
        \A k \in DOMAIN mg.scored_skills :
            AllWindowLevels(mg.scored_skills[k], mg.resume) # {}
                => mg.scored_skills[k].level
                       = FirstLevel(AllWindowLevels(mg.scored_skills[k], mg.resume))

\* C27: without a level keyword the level is Advanced with at least three
\* evidences or three occurrences, Intermediate with at least two
\* evidences or two occurrences, and Beginner otherwise
C27_LevelFromCounts ==
    mg.op = "ranked" =>
        \A k \in DOMAIN mg.scored_skills :
            LET skill == mg.scored_skills[k]
                occurrences == CountOf(mg.resume, skill.name)
            IN  AllWindowLevels(skill, mg.resume) = {}
                    => skill.level =
                           IF Len(skill.evidence) >= 3 \/ occurrences >= 3
                           THEN "Advanced"
                           ELSE IF Len(skill.evidence) >= 2 \/ occurrences >= 2
                           THEN "Intermediate"
                           ELSE "Beginner"

(***************************************************************************)
(* Claims on the callers that share the evidence cache                     *)
(***************************************************************************)
\* C28: with concurrent calls of extract_skills_with_context on one
\* analyzer, an entry of the evidence cache never changes once it exists,
\* and every caller that analyses a text gets the result the first caller
\* of that text got
C28_WriteOnce ==
    [][/\ \A h \in DOMAIN evidence_cache :
             /\ h \in DOMAIN evidence_cache'
             /\ evidence_cache'[h] = evidence_cache[h]
       /\ (ret' # ret /\ ret'.text \in DOMAIN first)
             => ret'.result = first[ret'.text]]_vars

(***************************************************************************)
(* Claims on the readiness score                                           *)
(***************************************************************************)
\* the gaps with the priority of gap k set to p
WithPriority(gaps, k, p) == [gaps EXCEPT ![k].priority = p]

\* C29: for gaps of priority 1 to 5 the readiness_score of get_gap_summary
\* is an integer from 0 to 100, is 100 exactly when there is no gap, and
\* does not increase when one gap moves to a more critical tier
C29_ReadinessScore ==
    ga.op = "get_gap_summary" =>
        /\ ga.out.readiness_score \in 0..100
        /\ ga.out.readiness_score = 100 <=> ga.in.gaps = <<>>
        /\ \A k \in DOMAIN ga.in.gaps :
              \A p \in 1..(ga.in.gaps[k].priority - 1) :
                  get_gap_summary(WithPriority(ga.in.gaps, k, p)).readiness_score
                      <= ga.out.readiness_score

\* four gaps whose weights add up to 11 score 44, and moving the gap of
\* tier 5 among them to tier 1 lowers the score
C29_Witness ==
    /\ ga.op = "get_gap_summary"
    /\ Len(ga.in.gaps) = 4
    /\ ga.out.readiness_score = 44
    /\ \E k \in DOMAIN ga.in.gaps :
          /\ ga.in.gaps[k].priority = 5
          /\ get_gap_summary(WithPriority(ga.in.gaps, k, 1)).readiness_score
                 < ga.out.readiness_score

(***************************************************************************)
(* Claims on batch processing                                              *)
(***************************************************************************)
\* the files of the batch that were taken up and have an allowed suffix
EligibleDone ==
    {k \in 1..(ps.next - 1) : SuffixLower(ps.files[k].suffix) \in ALLOWED_EXTENSIONS}

\* the analysis of file k failed: parse_resume_file gave the error response
AnalysisFailed(k) ==
    "error" \in DOMAIN parse_resume_file(ps.files[k], ps.tagger, ps.phase,
                                         ps.job_context).meta

EntriesOf(k) ==
    {j \in DOMAIN ps.results.results : ps.results.results[j].filename = k}

\* C30: a failure on one resume does not abort the batch: every eligible
\* file taken up has exactly one result entry, a file whose analysis
\* failed has an entry of status failed or error and is counted as failed,
\* and the counts of successes and failures add up to the files processed
C30_FailuresPerFile ==
    ps.op = "batch" =>
        /\ \A k \in EligibleDone : Cardinality(EntriesOf(k)) = 1
        /\ ps.results.processed + ps.results.failed = Len(ps.results.results)
        /\ \A k \in EligibleDone :
              AnalysisFailed(k) =>
                  \A j \in EntriesOf(k) :
                      ps.results.results[j].status \in {"failed", "error"}
        /\ ps.results.failed >=
               Cardinality({k \in EligibleDone : AnalysisFailed(k)})

=============================================================================
